---- MODULE Spec2Model ----
(***************************************************************************)
(* rivapi: the rate limiter and the retry wrapper of decorators.py, the    *)
(* Eaufrance single-site fetch they decorate (clients/eaufrance.py) and    *)
(* the paginated query below it (clients/eaufrance_helpers.py).            *)
(*                                                                         *)
(* Time is a clock in ticks, TicksPerSecond ticks to the second.  Instants *)
(* (start, end, chunk bounds) are day numbers.  A record of the service is *)
(* a natural number, a URL a tuple, a missing URL the empty tuple.        *)
(***************************************************************************)
EXTENDS Integers, Sequences, FiniteSets, TLC

(* ------------------------------ bounds -------------------------------- *)

\* ticks per second; rate limits are the divisors, so 1/rate_limit is exact
TicksPerSecond == 2
\* largest settings.retries
MaxRetries == 4
\* largest settings.backoff, in ticks
MaxBackoff == 2
\* time stops passing by itself here (sleeps still advance the clock)
MaxTime == 8
\* HTTP requests of one behaviour, all calls and attempts together
MaxHttp == 4
\* decorated fetches of one behaviour of Spec
MaxFetches == 2
\* run-time changes of the settings
MaxReconfig == 1
\* calls through the limiter in one behaviour of SpecLimiter
MaxCalls == 3
\* calls through the limiter in one behaviour of SpecConc
MaxConcCalls == 2
\* requests of one call into bom_helpers, failed attempts included
MaxBomHttp == 7

(* ------------------------- program constants -------------------------- *)

\* eaufrance.py: MAX_RECORDS, the chunk size of a daily fetch
MAX_RECORDS == 20000
\* eaufrance_helpers.py: the literal of "if count > 20000"
API_LIMIT == 20000
\* bom_helpers.py: make_bom_request(params, retries=5, backoff=1.0)
BOM_RETRIES == 5

\* content.get("next") of a page without one
NoURL == << >>

Threads == {"main", "other"}
\* the thread that runs the client; the other one only contends for the limiter
Main == "main"

Rates == {r \in 1..TicksPerSecond : TicksPerSecond % r = 0}
Retries == 0..MaxRetries
Backoffs == 1..MaxBackoff
SettingsValues == [rate_limit : Rates, retries : Retries, backoff : Backoffs]

Sites == {"X", "Y"}
\* grandeur codes passed to get_data_single_site: one daily, one monthly
Variables == {"QmnJ", "QmM"}
\* (start, end) windows: two days (one chunk), one day more than a full chunk
\* (two), one day more than two full chunks
Windows == {<<10, 11>>, <<10, 10 + MAX_RECORDS + 1>>, <<10, 10 + 2 * MAX_RECORDS + 1>>}

RECURSIVE Pow2(_)
Pow2(n) == IF n = 0 THEN 1 ELSE 2 * Pow2(n - 1)

Min(a, b) == IF a <= b THEN a ELSE b
Max(a, b) == IF a >= b THEN a ELSE b

RECURSIVE Concat(_)
Concat(ss) == IF ss = << >> THEN << >> ELSE Head(ss) \o Concat(Tail(ss))

(* ------------------------------- state -------------------------------- *)

VARIABLES
    settings,     \* the process-wide settings object {rate_limit, retries, backoff}
    reconfigs,    \* run-time changes of the settings made so far
    now,          \* time.time(), in ticks
    interval,     \* rate_limited: the closure's interval, set when the method is decorated
    last_called,  \* rate_limited: last_called[0]
    pc,           \* per thread: where it stands
    rl,           \* per thread: the limiter wrapper's locals now, wait
    passes,       \* history: [t, at] of every assignment to last_called[0]
    req,          \* the arguments of the decorated call: site, variable, start, end
    metadata,     \* the client's metadata table
    retry,        \* retry_on_failure.wrapper: the range's length n, attempt, wait
    events,       \* history of the decorated call: fail / sleep / ok
    frame,        \* get_data_single_site: start, end, chunk_days, chunk_start, chunk_end, all_data
    q,            \* do_api_query: query, data; history: where its requests start in
                  \* httplog (base) and the do_api_query calls so far (id)
    httplog,      \* history of the decorated call: every HTTP request and its response
    qret,         \* history of the decorated call: what each do_api_query returned
    sent,         \* history: the HTTP requests issued since the start
    outcome,      \* how the decorated call ended: kind, value, error
    dq,           \* a direct call of do_api_query: params, query, data, log, error
    gd,           \* BaseClient.get_data: its arguments, locals and outcome
    bom,          \* a call into bom_helpers: its arguments, locals, requests and outcome
    wr            \* a call of rivapi.get_data: its arguments, the client's and the results

vars == <<settings, reconfigs, now, interval, last_called, pc, rl, passes, req,
          metadata, retry, events, frame, q, httplog, qret, sent, outcome, dq, gd, bom,
          wr>>

limiterVars == <<interval, last_called, rl, passes>>
callVars == <<req, retry, events, frame, q, httplog, qret, sent, outcome>>
clientVars == <<dq, gd, bom, wr>>

(* --------------------------- the environment -------------------------- *)

\* 0 stands for requests.get raising instead of answering
NetErr == 0
\* the continuation URLs a 206 page may carry
Cursors == {<<"next", 1>>, <<"next", 2>>}
\* how the installed requests reports an undecodable body: as its own
\* JSONDecodeError (a RequestException, requests >= 2.27) or as json's ValueError
DecodeClasses == {"JSONDecodeError", "ValueError"}

Response(st, body, decode, count, n, next) ==
    [status |-> st, body |-> body, decode |-> decode, count |-> count, ndata |-> n, next |-> next]

Responses ==
    {Response(NetErr, "none", "-", 0, 0, NoURL),
     Response(503, "plain", "-", 0, 0, NoURL),
     Response(400, "fields", "-", 0, 0, NoURL),
     Response(400, "garbage", "-", 0, 0, NoURL),
     Response(200, "json", "-", 0, 0, NoURL),
     Response(200, "json", "-", API_LIMIT, 1, NoURL),
     Response(200, "json", "-", API_LIMIT + 1, 1, NoURL),
     Response(206, "json", "-", API_LIMIT, 1, NoURL),
     Response(206, "json", "-", API_LIMIT + 1, 1, NoURL)}
    \cup {Response(200, "garbage", d, 0, 0, NoURL) : d \in DecodeClasses}
    \cup {Response(206, "json", "-", API_LIMIT, 1, u) : u \in Cursors}

\* the records of a page: the service never serves one record twice
PageData(resp, seqno) == IF resp.ndata = 0 THEN << >> ELSE <<seqno>>

NoMeta == [loaded |-> FALSE, rows |-> << >>]
Row(site, open, closed) == [code_station |-> site, date_ouverture_station |-> open,
                            date_fermeture_station |-> closed]
\* a date cell is << >> (empty) or <<day>>
Metadatas == {NoMeta,
              [loaded |-> TRUE, rows |-> <<Row("X", <<11>>, << >>), Row("Y", << >>, <<5>>)>>]}

\* a table that has a row for X and none for Y
PartialMeta == [loaded |-> TRUE, rows |-> <<Row("X", <<11>>, << >>)>>]

\* the daily series of site X over every window, the other series over the
\* short one
Requests ==
    {r \in [site : Sites, variable : Variables, start : {w[1] : w \in Windows},
            end : {w[2] : w \in Windows}] :
        /\ <<r.start, r.end>> \in Windows
        /\ (r.variable = "QmM" \/ r.site = "Y") => r.end = r.start + 1}
\* no decorated call is running
NoRequest == [site |-> "X", variable |-> "QmnJ", start |-> 0, end |-> 0]

NoError == [cls |-> "None", kind |-> "None", status |-> 0, at |-> 0]
Error(cls, kind, status, at) == [cls |-> cls, kind |-> kind, status |-> status, at |-> at]

NoOutcome == [kind |-> "none", value |-> << >>, none |-> FALSE, error |-> NoError]
\* a returned table is its list of records; the no-data marker is Python's None
Returned(v) == [kind |-> "returned", value |-> v, none |-> FALSE, error |-> NoError]
ReturnedNone == [kind |-> "returned", value |-> << >>, none |-> TRUE, error |-> NoError]
Raised(e) == [kind |-> "raised", value |-> << >>, none |-> FALSE, error |-> e]

NoFrame == [start |-> 0, end |-> 0, chunk_days |-> 0, chunk_start |-> 0, chunk_end |-> 0,
            all_data |-> << >>]
NoQuery == [query |-> NoURL, data |-> << >>, base |-> 0, id |-> 0]
NoRetry == [n |-> 0, attempt |-> 0, wait |-> 0]

(* ------------------------------ settings ------------------------------ *)

\* 1.0 / settings.rate_limit, in ticks
IntervalOf(rate_limit) == TicksPerSecond \div rate_limit

\* cli.main, the Typer callback: it runs when a command is invoked, after the
\* client modules were imported and their methods decorated
SetSettings(s) ==
    /\ pc[Main] = "idle"
    /\ reconfigs < MaxReconfig
    /\ s # settings
    /\ settings' = s
    /\ reconfigs' = reconfigs + 1
    /\ UNCHANGED <<now, pc, metadata>>
    /\ UNCHANGED limiterVars
    /\ UNCHANGED callVars
    /\ UNCHANGED clientVars

\* another party assigns settings.retries or settings.backoff while the
\* retry wrapper is in time.sleep(wait), between two attempts
SetSettingsBetweenAttempts(s) ==
    /\ pc[Main] = "backoff"
    /\ reconfigs < MaxReconfig
    /\ s # settings
    /\ s.rate_limit = settings.rate_limit
    /\ settings' = s
    /\ reconfigs' = reconfigs + 1
    /\ UNCHANGED <<now, pc, metadata>>
    /\ UNCHANGED limiterVars
    /\ UNCHANGED callVars
    /\ UNCHANGED clientVars

\* time passes
Tick ==
    /\ now < MaxTime
    /\ now' = now + 1
    /\ UNCHANGED <<settings, reconfigs, pc, metadata>>
    /\ UNCHANGED limiterVars
    /\ UNCHANGED callVars
    /\ UNCHANGED clientVars

(* ---------------------- rate_limited.wrapper -------------------------- *)

\* a limiter that lets a call through one tick early
LimiterWaitShort(ivl, t_now, last) == ivl - (t_now - last) - 1

\* wait = interval - elapsed, with elapsed = now - last_called[0]
LimiterWait(ivl, t_now, last) == ivl - (t_now - last)

\* now = time.time()
RL_ReadNow(t) ==
    /\ pc[t] = "rl_now"
    /\ rl' = [rl EXCEPT ![t].now = now]
    /\ pc' = [pc EXCEPT ![t] = "rl_check"]
    /\ UNCHANGED <<settings, reconfigs, now, interval, last_called, passes, metadata>>
    /\ UNCHANGED callVars
    /\ UNCHANGED clientVars

\* elapsed = now - last_called[0]; wait = interval - elapsed; if wait > 0
RL_Check(t) ==
    /\ pc[t] = "rl_check"
    /\ LET w == LimiterWait(interval, rl[t].now, last_called)
       IN /\ rl' = [rl EXCEPT ![t].wait = w]
          /\ pc' = [pc EXCEPT ![t] = IF w > 0 THEN "rl_sleep" ELSE "rl_stamp"]
    /\ UNCHANGED <<settings, reconfigs, now, interval, last_called, passes, metadata>>
    /\ UNCHANGED callVars
    /\ UNCHANGED clientVars

\* time.sleep(wait): the clock advances by wait (Tick adds any more)
RL_Sleep(t) ==
    /\ pc[t] = "rl_sleep"
    /\ now' = now + rl[t].wait
    /\ pc' = [pc EXCEPT ![t] = "rl_stamp"]
    /\ UNCHANGED <<settings, reconfigs, interval, last_called, rl, passes, metadata>>
    /\ UNCHANGED callVars
    /\ UNCHANGED clientVars

\* last_called[0] = time.time(); then func(*args, **kwargs) is entered
RL_Stamp(t) ==
    /\ pc[t] = "rl_stamp"
    /\ last_called' = now
    /\ passes' = Append(passes, [t |-> t, at |-> now, slept |-> rl[t].wait > 0])
    /\ pc' = [pc EXCEPT ![t] = "call"]
    /\ UNCHANGED <<settings, reconfigs, now, interval, rl, metadata>>
    /\ UNCHANGED callVars
    /\ UNCHANGED clientVars

(* --------------------- retry_on_failure.wrapper ----------------------- *)

\* except (requests.exceptions.RequestException,): the classes it catches
IsRequestException(cls) == cls \in {"ConnectionError", "JSONDecodeError"}

\* if attempt < settings.retries - 1
ShouldRetry(attempt, retries) == attempt < retries - 1

\* a backoff that grows linearly instead of doubling
BackoffWaitLinear(backoff, attempt) == backoff * (attempt + 1)

\* wait = settings.backoff * (2 ** attempt)
BackoffWait(backoff, attempt) == backoff * Pow2(attempt)

\* a wrapper that raises an error of its own once the attempts are used up
ReraiseWrapped(e) == [e EXCEPT !.cls = "RuntimeError", !.kind = "retries_exhausted"]

\* else: raise -- the error that leaves the wrapper when e was caught last
Reraise(e) == e

\* return func(*args, **kwargs): what the wrapper returns when func returned result
WrapperReturn(result) == result

Event(ev, d, e, result) == [ev |-> ev, d |-> d, error |-> e, result |-> result]

\* the decorated function goes on
FuncContinues(to) ==
    /\ pc' = [pc EXCEPT ![Main] = to]
    /\ UNCHANGED <<retry, events, outcome>>

\* return func(*args, **kwargs)
FuncReturns(result) ==
    /\ events' = Append(events, Event("ok", 0, NoError, result))
    /\ outcome' = WrapperReturn(result)
    /\ pc' = [pc EXCEPT ![Main] = "done"]
    /\ UNCHANGED retry

\* func raised e: the except clause of the wrapper, or e passing through it
FuncRaises(e) ==
    /\ events' = Append(events, Event("fail", 0, e, NoOutcome))
    /\ IF IsRequestException(e.cls)
       THEN IF ShouldRetry(retry.attempt, settings.retries)
            THEN /\ retry' = [retry EXCEPT !.wait = BackoffWait(settings.backoff, retry.attempt)]
                 /\ pc' = [pc EXCEPT ![Main] = "backoff"]
                 /\ UNCHANGED outcome
            ELSE /\ outcome' = Raised(Reraise(e))
                 /\ pc' = [pc EXCEPT ![Main] = "done"]
                 /\ UNCHANGED retry
       ELSE /\ outcome' = Raised(e)
            /\ pc' = [pc EXCEPT ![Main] = "done"]
            /\ UNCHANGED retry

\* for attempt in range(settings.retries): the range is built once
RetryEnter ==
    /\ pc[Main] = "call"
    /\ retry' = [n |-> settings.retries, attempt |-> 0, wait |-> 0]
    /\ IF settings.retries = 0
       THEN /\ outcome' = ReturnedNone
            /\ pc' = [pc EXCEPT ![Main] = "done"]
       ELSE /\ pc' = [pc EXCEPT ![Main] = "invoke"]
            /\ UNCHANGED outcome
    /\ UNCHANGED <<settings, reconfigs, now, metadata, req, events, frame, q, httplog, qret,
                   sent>>
    /\ UNCHANGED limiterVars
    /\ UNCHANGED clientVars

\* time.sleep(wait), then the next iteration of the for loop; a loop that runs
\* out falls off the end of the wrapper, which returns None
BackoffSleep ==
    /\ pc[Main] = "backoff"
    /\ now' = now + retry.wait
    /\ events' = Append(events, Event("sleep", retry.wait, NoError, NoOutcome))
    /\ retry' = [retry EXCEPT !.attempt = retry.attempt + 1]
    /\ IF retry.attempt + 1 < retry.n
       THEN /\ pc' = [pc EXCEPT ![Main] = "invoke"]
            /\ UNCHANGED outcome
       ELSE /\ outcome' = ReturnedNone
            /\ pc' = [pc EXCEPT ![Main] = "done"]
    /\ UNCHANGED <<settings, reconfigs, metadata, req, frame, q, httplog, qret, sent>>
    /\ UNCHANGED limiterVars
    /\ UNCHANGED clientVars

(* --------------------------- do_api_query ----------------------------- *)

\* HYDROMETRIE_CONFIG[...]['obs_elab']['fields']
ObsElabFields ==
    {"bbox", "code_entite", "cursor", "date_debut_obs_elab", "date_fin_obs_elab",
     "distance", "fields", "grandeur_hydro_elab", "latitude", "longitude",
     "resultat_max", "resultat_min", "size"}

\* get_hydrometrie_obs_elab: the deprecated alias QmJ is replaced by QmnJ
ObsElabVariable(v) == IF v = "QmJ" THEN "QmnJ" ELSE v

\* the keyword arguments get_data_single_site passes to get_hydrometrie_obs_elab
ObsElabParams(site, from, to, variable) ==
    [code_entite |-> site, date_debut_obs_elab |-> from, date_fin_obs_elab |-> to,
     grandeur_hydro_elab |-> ObsElabVariable(variable)]

\* a ceiling that lets one record more through
OverLimitLate(count) == count > API_LIMIT + 1

\* if count > 20000
OverLimit(count) == count > API_LIMIT

\* a loop that keeps the last page only
ExtendReplace(data, page) == page

\* data.extend(content.get("data", []))
Extend(data, page) == data \o page

\* query = content.get("next")
NextQuery(resp) == resp.next

\* for k, v in params.items(): if k not in allowed_fields
BadKeys(params, allowed) == {k \in DOMAIN params : k \notin allowed}

\* the query URL built from the endpoint's path and the encoded parameters
BuildURL(endpoint, params) == <<"GET", endpoint, params>>

\* one pass of the while loop for the response resp, the seqno-th of the
\* decorated call: what the loop does next, and query and data after it
PageStep(resp, qq, seqno) ==
    LET raise(e) == [act |-> "raise", error |-> e, query |-> qq.query, data |-> qq.data]
        go(act, u, d) == [act |-> act, error |-> NoError, query |-> u, data |-> d]
    IN  IF resp.status = NetErr
        THEN raise(Error("ConnectionError", "transport", 0, seqno))
        ELSE IF resp.status >= 400
        THEN IF resp.body = "fields"
             THEN raise(Error("RuntimeError", "field_errors", resp.status, seqno))
             ELSE raise(Error("RuntimeError", "http_status", resp.status, seqno))
        ELSE IF resp.body = "garbage"
        THEN raise(Error(resp.decode, "malformed", resp.status, seqno))
        ELSE IF OverLimit(resp.count)
        THEN raise(Error("ValueError", "limit", resp.status, seqno))
        ELSE IF resp.count = 0
        THEN go("break", qq.query, << >>)
        ELSE LET d == Extend(qq.data, PageData(resp, seqno))
             IN  IF resp.status = 206
                 THEN IF NextQuery(resp) = NoURL
                      THEN go("break", NoURL, d)
                      ELSE go("continue", NextQuery(resp), d)
                 ELSE IF resp.status = 200
                 THEN go("break", qq.query, d)
                 ELSE go("continue", qq.query, d)

(* -------------- Eaufrance_Client.get_data_single_site ----------------- *)

\* variable.endswith('J')
EndsWithJ(v) == v \in {"QmnJ", "QmJ", "HIXnJ", "QINnJ", "QIXnJ"}

\* self.metadata[self.metadata['code_station'] == site]
RowsOf(site) == SelectSeq(metadata.rows, LAMBDA r : r.code_station = site)

\* start = max(start, station_open), when the cell is not empty
ClampStart(start, open) == IF open # << >> THEN Max(start, open[1]) ELSE start

\* a clamp that ignores the closing date
ClampEndNever(end, closed) == end

\* end = min(end, station_closed), when the cell is not empty
ClampEnd(end, closed) == IF closed # << >> THEN Min(end, closed[1]) ELSE end

\* chunk_days = min(MAX_RECORDS, n_days), n_days the days from start to end
ChunkDays(start, end) == Min(MAX_RECORDS, end - start)

\* chunk_end = min(chunk_start + pd.Timedelta(days=chunk_days), end)
ChunkEnd(chunk_start, chunk_days, end) == Min(chunk_start + chunk_days, end)

\* a fetch that starts from the tables the attempts before it had collected
AllDataCarried(returned) ==
    LET full == SelectSeq(returned, LAMBDA r : r.data # << >>)
    IN  [k \in 1..Len(full) |-> full[k].data]

\* all_data = []: a local of the invocation, whatever the queries of the
\* earlier attempts had returned
AllDataAtEntry(returned) == << >>

\* no do_api_query is running
ClosedQuery == [NoQuery EXCEPT !.id = q.id]

\* do_api_query up to its while loop: the keys are validated, the URL is built
StartQuery(from, to) ==
    LET params == ObsElabParams(req.site, from, to, req.variable)
    IN  IF BadKeys(params, ObsElabFields) # {}
        THEN /\ FuncRaises(Error("ValueError", "validation", 0, Len(httplog)))
             /\ q' = ClosedQuery
        ELSE /\ FuncContinues("http")
             /\ q' = [query |-> BuildURL("obs_elab", params), data |-> << >>,
                      base |-> Len(httplog), id |-> q.id + 1]

\* the body of get_data_single_site up to its first request
Invoke ==
    /\ pc[Main] = "invoke"
    /\ IF metadata.loaded /\ RowsOf(req.site) = << >>
       THEN \* .iloc[0] of an empty selection
            /\ FuncRaises(Error("IndexError", "no_row", 0, Len(httplog)))
            /\ UNCHANGED <<frame, q>>
       ELSE LET row == RowsOf(req.site)[1]
                st == IF metadata.loaded
                      THEN ClampStart(req.start, row.date_ouverture_station)
                      ELSE req.start
                en == IF metadata.loaded
                      THEN ClampEnd(req.end, row.date_fermeture_station)
                      ELSE req.end
            IN  IF metadata.loaded /\ st > en
                THEN /\ FuncReturns(ReturnedNone)
                     /\ UNCHANGED <<frame, q>>
                ELSE IF EndsWithJ(req.variable)
                THEN /\ frame' = [start |-> st, end |-> en,
                                  chunk_days |-> ChunkDays(st, en),
                                  chunk_start |-> st, chunk_end |-> 0,
                                  all_data |-> AllDataAtEntry(qret)]
                     /\ q' = ClosedQuery
                     /\ FuncContinues("chunk")
                ELSE /\ frame' = [NoFrame EXCEPT !.start = st, !.end = en]
                     /\ StartQuery(st, en)
    /\ UNCHANGED <<settings, reconfigs, now, metadata, req, httplog, qret, sent>>
    /\ UNCHANGED limiterVars
    /\ UNCHANGED clientVars

\* while chunk_start <= end: the next chunk's query; after the loop the
\* concatenated table, or None when no chunk had data
ChunkHead ==
    /\ pc[Main] = "chunk"
    /\ IF frame.chunk_start <= frame.end
       THEN LET ce == ChunkEnd(frame.chunk_start, frame.chunk_days, frame.end)
            IN  /\ frame' = [frame EXCEPT !.chunk_end = ce]
                /\ StartQuery(frame.chunk_start, ce)
       ELSE /\ IF Len(frame.all_data) > 0
               THEN FuncReturns(Returned(Concat(frame.all_data)))
               ELSE FuncReturns(ReturnedNone)
            /\ frame' = NoFrame
            /\ q' = ClosedQuery
    /\ UNCHANGED <<settings, reconfigs, now, metadata, req, httplog, qret, sent>>
    /\ UNCHANGED limiterVars
    /\ UNCHANGED clientVars

\* resp = requests.get(query, headers=headers) and the pass of the while loop
\* over it; when do_api_query returns, the caller's statements up to the next
\* loop head
HttpExchange(resp) ==
    /\ pc[Main] = "http"
    /\ sent < MaxHttp
    /\ sent' = sent + 1
    /\ LET seqno == Len(httplog) + 1
           step == PageStep(resp, q, seqno)
       IN  /\ httplog' = Append(httplog, [url |-> q.query, at |-> now, resp |-> resp,
                                          qid |-> q.id])
           /\ IF step.act = "raise"
              THEN /\ FuncRaises(step.error)
                   /\ frame' = NoFrame
                   /\ q' = ClosedQuery
                   /\ UNCHANGED qret
              ELSE IF step.act = "continue"
              THEN /\ FuncContinues("http")
                   /\ q' = [q EXCEPT !.query = step.query, !.data = step.data]
                   /\ UNCHANGED <<frame, qret>>
              ELSE /\ qret' = Append(qret, [id |-> q.id, base |-> q.base, n |-> seqno - q.base,
                                            data |-> step.data, query |-> step.query])
                   /\ q' = ClosedQuery
                   /\ IF EndsWithJ(req.variable)
                      THEN \* if len(result['data']) > 0: all_data.append(df)
                           /\ frame' = [frame EXCEPT
                                  !.all_data = IF Len(step.data) > 0
                                               THEN Append(@, step.data) ELSE @,
                                  !.chunk_start = frame.chunk_end + 1]
                           /\ FuncContinues("chunk")
                      ELSE \* if len(all_data) > 0: all_data is not bound here
                           /\ FuncRaises(Error("UnboundLocalError", "unbound", 0, seqno))
                           /\ frame' = NoFrame
    /\ UNCHANGED <<settings, reconfigs, now, metadata, req>>
    /\ UNCHANGED limiterVars
    /\ UNCHANGED clientVars

(* ------------------- do_api_query, called directly -------------------- *)

\* A string is the sequence of its characters, so that joining and formatting
\* are concatenations.  A parameter value is None, a string or a list of strings.
PNone == [kind |-> "none", s |-> << >>, items |-> << >>]
PStr(s) == [kind |-> "str", s |-> s, items |-> << >>]
PList(items) == [kind |-> "list", s |-> << >>, items |-> items]

\* the keyword arguments a caller may pass: allowed and unknown keys
ParamKeys == {"code_entite", "size", "code_station", "format"}
ParamValues == {PNone, PStr(<<"a">>), PList(<<<<"a">>, <<"b">>>>), PList(<<<<"a">>>>)}
\* **kwargs keeps the order of the call: sequences of (key, value), keys distinct
ParamSets ==
    {<< >>}
    \cup {<<<<k, v>>>> : k \in ParamKeys, v \in ParamValues}
    \cup {ps \in {<<<<k1, v>>, <<k2, PStr(<<"c">>)>>>> :
                     k1 \in ParamKeys, k2 \in ParamKeys,
                     v \in {PStr(<<"a">>), PList(<<<<"a">>, <<"b">>>>)}} :
            ps[1][1] # ps[2][1]}

\* the responses of the service to a direct query: those of the fetch, and a
\* success status that is neither 200 nor 206
QueryResponses == Responses \cup {Response(203, "json", "-", API_LIMIT, 1, NoURL)}

\* a validation that accepts every key
IsAllowedAny(k, allowed) == TRUE

\* if k not in allowed_fields
IsAllowed(k, allowed) == k \in allowed

\* the keys the loop over params.items() rejects, by position
BadPositions(params, allowed) == {i \in 1..Len(params) : ~IsAllowed(params[i][1], allowed)}

\* the first key the loop rejects
FirstBadKey(params, allowed) ==
    LET bad == BadPositions(params, allowed)
    IN  params[CHOOSE i \in bad : \A j \in bad : i <= j][1]

\* ",".join(map(str, v))
RECURSIVE JoinComma(_)
JoinComma(items) ==
    IF items = << >> THEN << >>
    ELSE IF Len(items) = 1 THEN items[1]
    ELSE items[1] \o <<",">> \o JoinComma(Tail(items))

\* if isinstance(v, (list, tuple)): v = ",".join(map(str, v))
EncodeValue(v) == IF v.kind = "list" THEN JoinComma(v.items) ELSE v.s

\* encoded_params: the parameters that are not None, lists joined
RECURSIVE EncodeParams(_)
EncodeParams(params) ==
    IF params = << >> THEN << >>
    ELSE LET kv == Head(params)
             rest == EncodeParams(Tail(params))
         IN  IF kv[2].kind = "none" THEN rest
             ELSE <<<<kv[1], EncodeValue(kv[2])>>>> \o rest

NoQueryError == [cls |-> "None", kind |-> "None", key |-> "None", status |-> 0]
NoDirectQuery == [phase |-> "idle", params |-> << >>, query |-> NoURL, data |-> << >>,
                  log |-> << >>, error |-> NoQueryError, result |-> << >>]

\* do_api_query(api='hydrometrie', endpoint='obs_elab', **params) up to its
\* while loop: the keys are validated in order, the URL is built
QueryCall(params) ==
    /\ dq.phase = "idle"
    /\ IF BadPositions(params, ObsElabFields) # {}
       THEN dq' = [dq EXCEPT !.phase = "raised", !.params = params,
                             !.error = [cls |-> "ValueError", kind |-> "validation",
                                        key |-> FirstBadKey(params, ObsElabFields),
                                        status |-> 0]]
       ELSE dq' = [dq EXCEPT !.phase = "loop", !.params = params,
                             !.query = BuildURL("obs_elab", EncodeParams(params))]
    /\ UNCHANGED <<settings, reconfigs, now, pc, metadata, gd, bom, wr>>
    /\ UNCHANGED limiterVars
    /\ UNCHANGED callVars

\* resp = requests.get(query, headers=headers) and the pass of the while loop over it
QueryRequest(resp) ==
    /\ dq.phase = "loop"
    /\ Len(dq.log) < MaxHttp
    /\ LET seqno == Len(dq.log) + 1
           step == PageStep(resp, dq, seqno)
           log == Append(dq.log, [url |-> dq.query, resp |-> resp])
       IN  IF step.act = "raise"
           THEN dq' = [dq EXCEPT !.phase = "raised", !.log = log,
                                 !.error = [cls |-> step.error.cls, kind |-> step.error.kind,
                                            key |-> "None", status |-> step.error.status]]
           ELSE IF step.act = "continue"
           THEN dq' = [dq EXCEPT !.log = log, !.query = step.query, !.data = step.data]
           ELSE dq' = [dq EXCEPT !.phase = "returned", !.log = log, !.query = step.query,
                                 !.data = step.data, !.result = step.data]
    /\ UNCHANGED <<settings, reconfigs, now, pc, metadata, gd, bom, wr>>
    /\ UNCHANGED limiterVars
    /\ UNCHANGED callVars

(* ----------------- BaseClient: argument normalization ----------------- *)

\* a word that is never taken apart is a string of one piece
W(x) == <<x>>

Adapters == {"NWIS", "Eaufrance", "BOM"}

\* VARIABLE_MAP of each client class
VARIABLE_MAP(adapter) ==
    CASE adapter = "NWIS" ->
           (W("discharge") :> W("00060") @@ W("stage") :> W("00065"))
      [] adapter = "Eaufrance" ->
           (W("discharge") :> <<"Q">> @@ W("stage") :> <<"H">>)
      [] adapter = "BOM" ->
           (W("discharge") :> W("Water Course Discharge")
              @@ W("stage") :> W("Water Course Stage"))

\* FREQUENCY_MAP of each client class; {} for BOM
FREQUENCY_MAP(adapter) ==
    CASE adapter = "NWIS" -> (W("daily") :> W("dv") @@ W("instantaneous") :> W("iv"))
      [] adapter = "Eaufrance" -> (W("daily") :> <<"J">> @@ W("monthly") :> <<"M">>)
      [] adapter = "BOM" -> << >>

\* STATISTIC_MAP of each client class; None for NWIS, {} for BOM
STATISTIC_MAP(adapter) ==
    CASE adapter = "NWIS" -> << >>
      [] adapter = "Eaufrance" ->
           (W("mean") :> <<"m", "n">> @@ W("maximum") :> <<"I", "X">>
              @@ W("minimum") :> <<"I", "N">>)
      [] adapter = "BOM" -> << >>

\* OBS_ELAB_VARIABLES: the elaborated quantities the service documents
OBS_ELAB_VARIABLES ==
    {<<"Q", "m", "n", "J">>, <<"Q", "m", "M">>, <<"H", "I", "X", "M">>,
     <<"H", "I", "X", "n", "J">>, <<"Q", "I", "N", "M">>, <<"Q", "I", "N", "n", "J">>,
     <<"Q", "I", "X", "M">>, <<"Q", "I", "X", "n", "J">>}

\* mapping.values()
Values(mapping) == {mapping[k] : k \in DOMAIN mapping}

NoClientError == [cls |-> "None", at |-> "None", value |-> << >>, valid |-> {}]
\* an error of class cls raised in at, whose message names value and the set valid
ClientError(cls, at, value, valid) == [cls |-> cls, at |-> at, value |-> value, valid |-> valid]

Ok(v) == [ok |-> TRUE, value |-> v, error |-> NoClientError]
Fail(e) == [ok |-> FALSE, value |-> PNone, error |-> e]

\* positions of the elements of a list that are not keys of the mapping
Unmapped(items, mapping) == {i \in 1..Len(items) : items[i] \notin DOMAIN mapping}

\* a lookup that passes unknown scalars through
ParseMappedLenient(arg, argname, mapping) ==
    IF arg.kind = "str" /\ DOMAIN mapping # {} /\ arg.s \in DOMAIN mapping
    THEN Ok(PStr(mapping[arg.s]))
    ELSE Ok(arg)

\* BaseClient._parse_mapped_argument
ParseMappedArgument(arg, argname, mapping) ==
    IF arg.kind = "none" \/ DOMAIN mapping = {}
    THEN Ok(arg)
    ELSE IF arg.kind = "str"
    THEN IF arg.s \notin DOMAIN mapping
         THEN \* f"{argname.title()} '{arg}' not recognised!"
              Fail(ClientError("ValueError", argname, arg.s, {}))
         ELSE Ok(PStr(mapping[arg.s]))
    ELSE IF arg.kind = "list"
    THEN IF Unmapped(arg.items, mapping) # {}
         THEN \* "... '{v}' not recognised! Valid values include: " + mapping.values()
              LET i == CHOOSE i \in Unmapped(arg.items, mapping) :
                           \A j \in Unmapped(arg.items, mapping) : i <= j
              IN  Fail(ClientError("ValueError", argname, arg.items[i], Values(mapping)))
         ELSE Ok(PList([i \in 1..Len(arg.items) |-> mapping[arg.items[i]]]))
    ELSE Fail(ClientError("TypeError", argname, << >>, {}))

\* if start > end
Inverted(start, end) == start > end

\* BaseClient._parse_start_and_end_times
BaseParseTimes(start, end) ==
    IF Inverted(start, end)
    THEN [ok |-> FALSE, start |-> start, end |-> end,
          error |-> ClientError("ValueError", "times", << >>, {})]
    ELSE [ok |-> TRUE, start |-> start, end |-> end, error |-> NoClientError]

\* _parse_start_and_end_times of each client class.  Instants are days in UTC:
\* Eaufrance localizes both to UTC and calls the base method; NWIS formats
\* both as dates and compares nothing; BOM inherits the base method
ParseTimes(adapter, start, end) ==
    IF adapter = "NWIS"
    THEN [ok |-> TRUE, start |-> start, end |-> end, error |-> NoClientError]
    ELSE BaseParseTimes(start, end)

NoArgs == [variable |-> PNone, frequency |-> PNone, statistic |-> PNone, start |-> 0, end |-> 0]
Parsed(a) == [ok |-> TRUE, args |-> a, error |-> NoClientError]
NotParsed(e) == [ok |-> FALSE, args |-> NoArgs, error |-> e]

\* BaseClient._parse_arguments: the three lookups, then the times; the first
\* error ends it
BaseParseArguments(adapter, in) ==
    LET v == ParseMappedArgument(in.variable, "variable", VARIABLE_MAP(adapter))
        f == ParseMappedArgument(in.frequency, "frequency", FREQUENCY_MAP(adapter))
        s == ParseMappedArgument(in.statistic, "statistic", STATISTIC_MAP(adapter))
        t == ParseTimes(adapter, in.start, in.end)
    IN  IF ~v.ok THEN NotParsed(v.error)
        ELSE IF ~f.ok THEN NotParsed(f.error)
        ELSE IF ~s.ok THEN NotParsed(s.error)
        ELSE IF ~t.ok THEN NotParsed(t.error)
        ELSE Parsed([variable |-> v.value, frequency |-> f.value, statistic |-> s.value,
                     start |-> t.start, end |-> t.end])

\* repr of a list of strings
RECURSIVE ReprItems(_)
ReprItems(items) ==
    IF items = << >> THEN << >>
    ELSE <<"'">> \o items[1] \o <<"'">>
         \o (IF Len(items) > 1 THEN <<",", " ">> ELSE << >>) \o ReprItems(Tail(items))

\* how an f-string renders a value
Format(v) ==
    IF v.kind = "str" THEN v.s
    ELSE IF v.kind = "none" THEN <<"N", "o", "n", "e">>
    ELSE <<"[">> \o ReprItems(v.items) \o <<"]">>

\* a stage check that lets every statistic through
StageUnavailableNever(variable, statistic) == FALSE

\* (variable == 'H') & (statistic in ['mn', 'IN'])
StageUnavailable(variable, statistic) ==
    /\ variable = PStr(<<"H">>)
    /\ statistic \in {PStr(<<"m", "n">>), PStr(<<"I", "N">>)}

\* f'{variable}{statistic}{frequency}'
Composite(variable, statistic, frequency) ==
    Format(variable) \o Format(statistic) \o Format(frequency)

\* Eaufrance_Client._parse_arguments
EaufranceParseArguments(in) ==
    LET base == BaseParseArguments("Eaufrance", in)
        a == base.args
    IN  IF ~base.ok THEN base
        ELSE IF StageUnavailable(a.variable, a.statistic)
        THEN NotParsed(ClientError("ValueError", "stage", << >>, {}))
        ELSE Parsed([a EXCEPT !.variable = PStr(Composite(a.variable, a.statistic, a.frequency)),
                              !.frequency = PNone, !.statistic = PNone])

\* self._parse_arguments(...) of the client class
ParseArguments(adapter, in) ==
    IF adapter = "Eaufrance" THEN EaufranceParseArguments(in) ELSE BaseParseArguments(adapter, in)

(* ------------------------ BaseClient.get_sites ------------------------ *)

\* list(dict.fromkeys(sites)): the first occurrence of each site, in order
RECURSIVE Dedup(_)
Dedup(sites) ==
    IF sites = << >> THEN << >>
    ELSE LET init == Dedup(SubSeq(sites, 1, Len(sites) - 1))
             last == sites[Len(sites)]
         IN  IF \E i \in 1..Len(init) : init[i] = last THEN init ELSE Append(init, last)

\* sites None, one string, or a list
SitesAsList(sites) ==
    IF sites.kind = "none" THEN << >>
    ELSE IF sites.kind = "str" THEN <<sites.s>>
    ELSE sites.items

\* self.metadata[self.SITE_COLUMN_NAME].tolist()
MetadataSites(meta) == [i \in 1..Len(meta.rows) |-> W(meta.rows[i].code_station)]

\* an emptiness check that accepts the empty list
NoSitesNever(sites) == FALSE

\* if not sites
NoSites(sites) == sites = << >>

\* BaseClient.get_sites.  "not self.metadata" raises for a DataFrame, whose
\* truth value pandas refuses to give (ValueError)
GetSites(sites, sites_from_metadata, meta) ==
    LET explicit == SitesAsList(sites)
        fail(at) == [ok |-> FALSE, sites |-> << >>,
                     error |-> ClientError("ValueError", at, << >>, {})]
    IN  IF sites_from_metadata /\ ~meta.loaded
        THEN fail("no_metadata")
        ELSE IF sites_from_metadata
        THEN fail("truth_value")
        ELSE LET merged == Dedup(explicit)
             IN  IF NoSites(merged)
                 THEN fail("no_sites")
                 ELSE [ok |-> TRUE, sites |-> merged, error |-> NoClientError]

(* ------------------------- BaseClient.get_data ------------------------ *)

\* the arguments of get_data
SiteInputs == {PNone, PStr(W("A")), PList(<< >>), PList(<<W("A"), W("B"), W("A")>>)}
VariableInputs ==
    {PNone, PStr(W("discharge")), PStr(W("stage")), PStr(W("flow")),
     PList(<<W("discharge"), W("stage")>>), PList(<<W("discharge"), W("flow")>>)}
FrequencyInputs == {PNone, PStr(W("daily")), PStr(W("monthly")), PStr(W("instantaneous"))}
StatisticInputs ==
    {PNone, PStr(W("mean")), PStr(W("maximum")), PStr(W("minimum")), PStr(W("median"))}
\* (start, end): in order, equal, inverted
TimeInputs == {<<10, 11>>, <<10, 10>>, <<11, 10>>}
\* overwrite and append are read by the write only
GetDataInputs ==
    {in \in [sites : SiteInputs, sites_from_metadata : BOOLEAN, variable : VariableInputs,
             frequency : FrequencyInputs, statistic : StatisticInputs,
             start : {t[1] : t \in TimeInputs}, end : {t[2] : t \in TimeInputs},
             write : BOOLEAN, overwrite : BOOLEAN, append : BOOLEAN,
             return_data : BOOLEAN] :
        /\ <<in.start, in.end>> \in TimeInputs
        /\ (in.overwrite \/ in.append) => in.write}
\* how one call of get_data_single_site ends: with a table, with None, with an
\* error of the fetch itself (ValueError, RuntimeError), or with the
\* RequestException the retry wrapper re-raises at its last attempt
SiteResults == {"table", "none", "hard", "exhausted"}

\* a site's csv file: the header lines and the rows it holds
NoFile == [exists |-> FALSE, headers |-> 0, rows |-> << >>]
File(headers, rows) == [exists |-> TRUE, headers |-> headers, rows |-> rows]
\* the rows of a fetched table
TableRows == <<"row">>
\* output_dir when get_data is called: the file of site A is there, no other
Files == [site \in {W("A"), W("B")} |-> IF site = W("A") THEN File(1, <<"old">>) ELSE NoFile]

\* BaseClient._write_data on the file of a site
WriteData(file, rows, overwrite, append) ==
    IF file.exists
    THEN IF overwrite THEN [ok |-> TRUE, file |-> File(1, rows)]
         ELSE IF append THEN [ok |-> TRUE, file |-> File(file.headers, file.rows \o rows)]
         ELSE [ok |-> FALSE, file |-> file]
    ELSE [ok |-> TRUE, file |-> File(1, rows)]

NoInput == [sites |-> PNone, sites_from_metadata |-> FALSE, variable |-> PNone,
            frequency |-> PNone, statistic |-> PNone, start |-> 0, end |-> 0,
            write |-> FALSE, overwrite |-> FALSE, append |-> FALSE,
            return_data |-> FALSE]
\* invoked: the sites get_data_single_site was called for; calls: the keyword
\* arguments of each call; fetched: how each call ended; ret: what get_data
\* returned ("map" for the dict data, "none" for None)
NoGetData == [phase |-> "idle", adapter |-> "None", in |-> NoInput, sites |-> << >>,
              args |-> NoArgs, invoked |-> << >>, calls |-> << >>, fetched |-> << >>,
              data |-> << >>, ret |-> "-", files |-> Files,
              error |-> NoClientError]

\* time.sleep(0.5), in ticks (rounded down)
SitePause == TicksPerSecond \div 2

\* client.get_data(...) up to its loop: get_sites, then _parse_arguments
GetDataCall(adapter, in) ==
    /\ gd.phase = "idle"
    /\ LET s == GetSites(in.sites, in.sites_from_metadata, metadata)
           a == ParseArguments(adapter, in)
       IN  IF ~s.ok
           THEN gd' = [gd EXCEPT !.phase = "raised", !.adapter = adapter, !.in = in,
                                 !.error = s.error]
           ELSE IF ~a.ok
           THEN gd' = [gd EXCEPT !.phase = "raised", !.adapter = adapter, !.in = in,
                                 !.sites = s.sites, !.error = a.error]
           ELSE gd' = [gd EXCEPT !.phase = "loop", !.adapter = adapter, !.in = in,
                                 !.sites = s.sites, !.args = a.args]
    /\ UNCHANGED <<settings, reconfigs, now, pc, metadata, dq, bom, wr>>
    /\ UNCHANGED limiterVars
    /\ UNCHANGED callVars

\* for site in sites: df = self.get_data_single_site(site, **args) is called
BeforeFetch(g, site) ==
    [g EXCEPT !.invoked = Append(g.invoked, site), !.calls = Append(g.calls, g.args)]

\* the error get_data_single_site raised for a site
SiteError(site, res) ==
    ClientError(IF res = "exhausted" THEN "RequestException" ELSE "Exception",
                "get_data_single_site", site, {})

\* a loop body that forgets the site's result
AfterFetchForget(g, site, res) == [g EXCEPT !.fetched = Append(g.fetched, <<site, res>>)]

\* a loop body that takes a failed fetch for a site without data and goes on
AfterFetchSwallow(g, site, res) ==
    [g EXCEPT !.fetched = Append(g.fetched, <<site, res>>),
              !.data = Append(g.data, <<site, IF res = "table" THEN "table" ELSE "none">>)]

\* the rest of the loop body once the fetch of a site has ended as res: an
\* exception leaves get_data; otherwise the write, then data[site] = df
AfterFetch(g, site, res) ==
    LET f == [g EXCEPT !.fetched = Append(g.fetched, <<site, res>>)]
    IN  IF res \in {"hard", "exhausted"}
        THEN [f EXCEPT !.phase = "raised", !.error = SiteError(site, res)]
        ELSE IF g.in.write
        THEN \* self.write_data: BaseClient has _write_data only
             [f EXCEPT !.phase = "raised",
                       !.error = ClientError("AttributeError", "write_data", site, {})]
        ELSE [f EXCEPT !.data = Append(g.data, <<site, res>>)]

\* one pass of "for site in sites": the pause, the site's fetch (which ends as
\* res), the write
GetDataSite(res) ==
    /\ gd.phase = "loop"
    /\ Len(gd.invoked) < Len(gd.sites)
    /\ now' = now + SitePause
    /\ LET site == gd.sites[Len(gd.invoked) + 1]
       IN  gd' = AfterFetch(BeforeFetch(gd, site), site, res)
    /\ UNCHANGED <<settings, reconfigs, pc, metadata, dq, bom, wr>>
    /\ UNCHANGED limiterVars
    /\ UNCHANGED callVars

\* return data if return_data else None
GetDataReturn ==
    /\ gd.phase = "loop"
    /\ pc[Main] = "idle"
    /\ Len(gd.invoked) = Len(gd.sites)
    /\ gd' = [gd EXCEPT !.phase = "returned",
                        !.ret = IF gd.in.return_data THEN "map" ELSE "none",
                        !.data = IF gd.in.return_data THEN gd.data ELSE << >>]
    /\ UNCHANGED <<settings, reconfigs, now, pc, metadata, dq, bom, wr>>
    /\ UNCHANGED limiterVars
    /\ UNCHANGED callVars

(* --------------- get_data over the Eaufrance site fetch ---------------- *)

\* the composite code as the one string the f-string builds
Text(chars) ==
    IF chars = <<"Q", "m", "n", "J">> THEN "QmnJ"
    ELSE IF chars = <<"Q", "m", "n", "M">> THEN "QmnM"
    ELSE "other"

\* get_data on an Eaufrance client: the mean discharge, daily or monthly, of
\* two stations of the metadata table, in either order, or of one
RunInputs ==
    {in \in [sites : {PList(<<W("X"), W("Y")>>), PList(<<W("Y"), W("X")>>), PStr(W("X"))},
             sites_from_metadata : {FALSE}, variable : {PStr(W("discharge"))},
             frequency : {PStr(W("daily")), PStr(W("monthly"))},
             statistic : {PStr(W("mean"))}, start : {10}, end : {11},
             write : {FALSE}, overwrite : {FALSE}, append : {FALSE},
             return_data : BOOLEAN] : TRUE}

\* how the decorated fetch of a site ended, as the loop of get_data sees it
SiteResult(o) ==
    IF o.kind = "raised"
    THEN IF IsRequestException(o.error.cls) THEN "exhausted" ELSE "hard"
    ELSE IF o.none THEN "none" ELSE "table"

\* a loop whose window is the one the fetch before it last asked the service for
SiteCallShared(g, site) ==
    [site |-> site[1], variable |-> Text(g.args.variable.s),
     start |-> IF httplog # << >> THEN httplog[Len(httplog)].url[3].date_debut_obs_elab
               ELSE g.args.start,
     end |-> IF httplog # << >> THEN httplog[Len(httplog)].url[3].date_fin_obs_elab
             ELSE g.args.end]

\* self.get_data_single_site(site, **args): the arguments of the call
SiteCall(g, site) ==
    [site |-> site[1], variable |-> Text(g.args.variable.s),
     start |-> g.args.start, end |-> g.args.end]

\* for site in sites: time.sleep(0.5); self.get_data_single_site(site, **args)
\* is called and enters the limiter's wrapper
SiteStart ==
    /\ gd.phase = "loop"
    /\ pc[Main] = "idle"
    /\ Len(gd.invoked) < Len(gd.sites)
    /\ now' = now + SitePause
    /\ LET site == gd.sites[Len(gd.invoked) + 1]
       IN  /\ gd' = BeforeFetch(gd, site)
           /\ req' = SiteCall(gd, site)
    /\ pc' = [pc EXCEPT ![Main] = "rl_now"]
    /\ UNCHANGED <<settings, reconfigs, metadata, retry, events, frame, q, httplog,
                   qret, sent, outcome, dq, bom, wr>>
    /\ UNCHANGED limiterVars

\* the decorated fetch has returned or raised: the rest of the loop body.
\* httplog goes on as the history of the requests of all sites
SiteEnd ==
    /\ gd.phase = "loop"
    /\ pc[Main] = "done"
    /\ gd' = AfterFetch(gd, gd.invoked[Len(gd.invoked)], SiteResult(outcome))
    /\ pc' = [pc EXCEPT ![Main] = "idle"]
    /\ retry' = NoRetry
    /\ events' = << >>
    /\ qret' = << >>
    /\ outcome' = NoOutcome
    /\ q' = ClosedQuery
    /\ req' = NoRequest
    /\ frame' = NoFrame
    /\ UNCHANGED <<settings, reconfigs, now, metadata, httplog, sent, dq, bom, wr>>
    /\ UNCHANGED limiterVars

(* ------------------------- Eaufrance get_metadata --------------------- *)

\* a record of the stations endpoint as a row of the metadata table: the
\* first record served is station X's, the others Y's, without dates
StationRow(record) == Row(IF record = 1 THEN "X" ELSE "Y", << >>, << >>)

\* pd.DataFrame(result['data'])
StationsTable(data) == [loaded |-> TRUE, rows |-> [i \in 1..Len(data) |-> StationRow(data[i])]]

\* Eaufrance_Client.get_metadata: get_hydrometrie_stations calls do_api_query
\* on the stations endpoint without parameters
StationsCall ==
    /\ dq.phase = "idle"
    /\ dq' = [dq EXCEPT !.phase = "stations", !.query = BuildURL("stations", << >>)]
    /\ UNCHANGED <<settings, reconfigs, now, pc, metadata, gd, bom, wr>>
    /\ UNCHANGED limiterVars
    /\ UNCHANGED callVars

\* one pass of the while loop of that query; when it returns, the records
\* become self.metadata
StationsRequest(resp) ==
    /\ dq.phase = "stations"
    /\ Len(dq.log) < MaxHttp
    /\ LET seqno == Len(dq.log) + 1
           step == PageStep(resp, dq, seqno)
           log == Append(dq.log, [url |-> dq.query, resp |-> resp])
       IN  IF step.act = "raise"
           THEN /\ dq' = [dq EXCEPT !.phase = "raised", !.log = log,
                                    !.error = [cls |-> step.error.cls,
                                               kind |-> step.error.kind,
                                               key |-> "None", status |-> step.error.status]]
                /\ UNCHANGED metadata
           ELSE IF step.act = "continue"
           THEN /\ dq' = [dq EXCEPT !.log = log, !.query = step.query, !.data = step.data]
                /\ UNCHANGED metadata
           ELSE /\ dq' = [dq EXCEPT !.phase = "returned", !.log = log, !.query = step.query,
                                    !.data = step.data, !.result = step.data]
                /\ metadata' = StationsTable(step.data)
    /\ UNCHANGED <<settings, reconfigs, now, pc, gd, bom, wr>>
    /\ UNCHANGED limiterVars
    /\ UNCHANGED callVars

(* ----------------------------- bom_helpers ---------------------------- *)

\* tz=None
NoTz == "None"
\* a sample of pytz.all_timezones
AllTimezones ==
    {"Australia/Queensland", "Australia/Darwin", "Australia/Perth", "Australia/Sydney", "UTC"}
TzInputs == {NoTz, "Australia/Sydney", "UTC", "Mars/Olympus"}

\* DATA_OWNER_NAME cells, as the pieces around the separator " -"
OwnerNames ==
    {<<j, " -", "Owner">> :
        j \in {"ACT", "ACTNSW", "NSW", "QLD", "TAS", "VIC", "SA", "NT", "WA", "Other"}}
    \cup {<<"WA">>, <<"nan">>, <<"Other", " -", "WA", " -", "Owner">>}

\* str(...).split(" -")[0]
RECURSIVE SplitHead(_)
SplitHead(pieces) ==
    IF pieces = << >> \/ Head(pieces) = " -" THEN << >>
    ELSE <<Head(pieces)>> \o SplitHead(Tail(pieces))

\* a lookup that sends every jurisdiction to Queensland's zone
TimezoneOfAny(jurisdiction) == [tz |-> "Australia/Queensland", warned |-> FALSE]

\* the jurisdiction -> zone branches of get_timeseries; warned: the print of
\* the last branch
TimezoneOf(jurisdiction) ==
    IF jurisdiction \in {<<"ACT">>, <<"ACTNSW">>, <<"NSW">>, <<"QLD">>, <<"TAS">>, <<"VIC">>}
    THEN [tz |-> "Australia/Queensland", warned |-> FALSE]
    ELSE IF jurisdiction \in {<<"SA">>, <<"NT">>}
    THEN [tz |-> "Australia/Darwin", warned |-> FALSE]
    ELSE IF jurisdiction = <<"WA">>
    THEN [tz |-> "Australia/Perth", warned |-> FALSE]
    ELSE [tz |-> "UTC", warned |-> TRUE]

\* parameters(): discrete + continuous
BomParameters ==
    {"Rainfall", "Evaporation", "Dry Air Temperature", "Relative Humidity", "Wind Speed",
     "Electrical Conductivity At 25C", "Turbidity", "pH", "Water Temperature",
     "Ground Water Level", "Water Course Level", "Water Course Discharge", "Storage Level",
     "Storage Volume"}

\* what the service answers: a failure of requests.get / raise_for_status /
\* r.json(), or a JSON body: the "No matches." sentinel, or rows
BomFailure(kind) == [kind |-> kind, matches |-> FALSE, rows |-> << >>]
BomNoMatches == [kind |-> "ok", matches |-> FALSE, rows |-> << >>]
BomRows(rows) == [kind |-> "ok", matches |-> TRUE, rows |-> rows]
BomFailures == {BomFailure("http_error"), BomFailure("request_error")}
\* to getStationList: the rows are the stations' DATA_OWNER_NAME cells
StationListResponses ==
    BomFailures \cup {BomNoMatches, BomRows(<< >>)}
    \cup {BomRows(<<o>>) : o \in OwnerNames}
    \cup {BomRows(<<<<"WA", " -", "Owner">>, <<"NSW", " -", "Owner">>>>)}
\* to getTimeseriesList: the rows are the ts_id cells
TimeseriesListResponses == BomFailures \cup {BomNoMatches, BomRows(<< >>), BomRows(<<<<"ts1">>>>)}
\* to getTimeseriesValues: json_data[0]["data"]
TimeseriesValuesResponses == BomFailures \cup {BomRows(<< >>), BomRows(<<<<"v1">>, <<"v2">>>>)}
ResponsesTo(request) ==
    IF request = "getStationList" THEN StationListResponses
    ELSE IF request = "getTimeseriesList" THEN TimeseriesListResponses
    ELSE TimeseriesValuesResponses

\* parameters("discrete")
BomDiscrete == {"Rainfall", "Evaporation"}

\* var.title() of the statistics get_daily knows
Title(var) ==
    CASE var = "max" -> "Max"
      [] var = "min" -> "Min"
      [] var = "mean" -> "Mean"
      [] var = "total" -> "Total"
      [] OTHER -> var

\* get_daily: var after "Handle var input"; "None" is Python's None
DailyVar(parameter_type, var) ==
    IF var = "None"
    THEN IF parameter_type \in BomDiscrete THEN "Total" ELSE "Mean"
    ELSE Title(var)

\* ts_name = f"DMQaQc.Merged.Daily{var}.{aggregation}"
TsName(var, aggregation) == <<"DMQaQc.Merged.Daily", var, ".", aggregation>>
NoTsName == << >>

\* valid_daily_ts of a parameter type
ValidDailyTs(parameter_type) ==
    IF parameter_type \in BomParameters \ BomDiscrete
    THEN {TsName("Mean", "24HR"), TsName("Max", "24HR"), TsName("Min", "24HR")}
         \cup (IF parameter_type = "Water Course Discharge"
               THEN {TsName("Mean", "09HR")} ELSE {})
    ELSE IF parameter_type \in BomDiscrete
    THEN {TsName("Total", "09HR"), TsName("Total", "24HR")}
    ELSE {}

\* BOMWater_Client.get_data_single_site: the var it passes to get_daily for
\* the statistic it was called with
SingleSiteVar(statistic) == "None"

\* the arguments of a call; many: station_number is a list of several
\* stations; statistic: the statistic get_data_single_site was called with
BomInput(parameter_type, many, start, end, tz) ==
    [parameter_type |-> parameter_type, many |-> many, start |-> start, end |-> end,
     tz |-> tz, statistic |-> "None"]
NoBomInput == BomInput("None", FALSE, 0, 0, NoTz)
\* the statistics get_data passes on: STATISTIC_MAP is empty, so as given
BomStatistics == {"mean", "maximum", "minimum"}
\* the calls of get_data_single_site for the variables of VARIABLE_MAP
DailyInputs ==
    {[BomInput(p[1], FALSE, t[1], t[2], NoTz) EXCEPT !.statistic = st] :
        p \in Values(VARIABLE_MAP("BOM")), t \in {<<10, 11>>, <<11, 10>>},
        st \in BomStatistics}
TimeseriesInputs ==
    {BomInput("Water Course Discharge", m, t[1], t[2], tz) :
        m \in BOOLEAN, t \in {<<10, 11>>, <<11, 10>>}, tz \in TzInputs}

\* what the call returned: a DataFrame of rows, or None
NoBomResult == [returned |-> FALSE, none |-> FALSE, rows |-> << >>]
BomTable(rows) == [returned |-> TRUE, none |-> FALSE, rows |-> rows]
NoBomMeta == [loaded |-> FALSE, rows |-> << >>]

\* stations: the station_list of get_timeseries; log: every requests.get, its
\* request type, whether it was answered, with how many rows, and the sleep
\* that followed it
NoBom == [phase |-> "idle", op |-> "None", in |-> NoBomInput, request |-> "None",
          attempt |-> 0, stations |-> << >>, tz |-> NoTz, warned |-> FALSE,
          ts_name |-> NoTsName, log |-> << >>,
          result |-> NoBomResult, metadata |-> NoBomMeta, error |-> NoClientError]

BomRaise(b, cls, at) == [b EXCEPT !.phase = "raised", !.error = ClientError(cls, at, << >>, {})]
\* make_bom_request(params) is called
BomAsk(b, request) == [b EXCEPT !.phase = "request", !.request = request, !.attempt = 0]

\* sleep(backoff * (2 ** attempt)) with backoff = 1.0, in ticks
BomWait(attempt) == TicksPerSecond * Pow2(attempt)

\* get_timeseries up to its first request
TimeseriesEnter(b) ==
    IF b.in.many
    THEN BomRaise(b, "ValueError", "single_station")
    ELSE IF b.in.tz # NoTz /\ b.in.tz \notin AllTimezones
    THEN BomRaise(b, "ValueError", "tz")
    ELSE BomAsk(b, "getStationList")

\* get_timeseries from the station list to its next request
AfterStationList(b, rows) ==
    IF rows = << >>
    THEN BomRaise(b, "ValueError", "invalid_station")
    ELSE LET zone == IF b.in.tz = NoTz THEN TimezoneOf(SplitHead(rows[1]))
                     ELSE [tz |-> b.in.tz, warned |-> FALSE]
             z == [b EXCEPT !.stations = rows, !.tz = zone.tz, !.warned = zone.warned]
         IN  IF Inverted(b.in.start, b.in.end)
             THEN BomRaise(z, "ValueError", "dates")
             ELSE BomAsk(z, "getTimeseriesList")

\* from the JSON body of a request to the next request or the end of the call
AfterBody(b, resp) ==
    IF b.request \in {"getStationList", "getTimeseriesList"} /\ ~resp.matches
    THEN \* json_data[0] == "No matches."
         BomRaise(b, "ValueError", "no_matches")
    ELSE IF b.request = "getStationList"
    THEN IF b.op = "get_metadata"
         THEN [b EXCEPT !.phase = "returned", !.metadata = [loaded |-> TRUE, rows |-> resp.rows]]
         ELSE AfterStationList(b, resp.rows)
    ELSE IF b.request = "getTimeseriesList"
    THEN IF resp.rows = << >>
         THEN \* timeseries_id.loc[0, "ts_id"]
              BomRaise(b, "KeyError", "ts_id")
         ELSE BomAsk(b, "getTimeseriesValues")
    ELSE \* return timeseries_values: an empty table when there are no data rows
         [b EXCEPT !.phase = "returned", !.result = BomTable(resp.rows)]

\* BOMWater_Client.get_data_single_site: get_daily with var=None and
\* aggregation='24HR', up to the first request of get_timeseries
BomDailyCall(in) ==
    /\ bom.phase = "idle"
    /\ LET b == [bom EXCEPT !.op = "get_daily", !.in = in]
           ts == TsName(DailyVar(in.parameter_type, SingleSiteVar(in.statistic)), "24HR")
       IN  IF in.parameter_type \notin BomParameters
           THEN bom' = BomRaise(b, "ValueError", "parameter")
           ELSE IF ts \notin ValidDailyTs(in.parameter_type)
           THEN bom' = BomRaise(b, "ValueError", "combination")
           ELSE bom' = TimeseriesEnter([b EXCEPT !.ts_name = ts])
    /\ UNCHANGED <<settings, reconfigs, now, pc, metadata, dq, gd, wr>>
    /\ UNCHANGED limiterVars
    /\ UNCHANGED callVars

\* get_timeseries(parameter_type, station_number, start_date, end_date, tz)
BomTimeseriesCall(in) ==
    /\ bom.phase = "idle"
    /\ bom' = TimeseriesEnter([bom EXCEPT !.op = "get_timeseries", !.in = in])
    /\ UNCHANGED <<settings, reconfigs, now, pc, metadata, dq, gd, wr>>
    /\ UNCHANGED limiterVars
    /\ UNCHANGED callVars

\* BOMWater_Client.get_metadata(variable)
BomMetadataCall(variable) ==
    /\ bom.phase = "idle"
    /\ LET p == ParseMappedArgument(variable, "variable", VARIABLE_MAP("BOM"))
           b == [bom EXCEPT !.op = "get_metadata"]
       IN  IF ~p.ok
           THEN bom' = [b EXCEPT !.phase = "raised", !.error = p.error]
           ELSE bom' = BomAsk(b, "getStationList")
    /\ UNCHANGED <<settings, reconfigs, now, pc, metadata, dq, gd, wr>>
    /\ UNCHANGED limiterVars
    /\ UNCHANGED callVars

\* one pass of "for attempt in range(retries)" of make_bom_request; on an
\* answer, the rest of the call up to its next request
BomRequest(resp) ==
    /\ bom.phase = "request"
    /\ Len(bom.log) < MaxBomHttp
    /\ LET b == [bom EXCEPT !.log = Append(bom.log, [request |-> bom.request,
                                                     ok |-> resp.kind = "ok",
                                                     matches |-> resp.matches,
                                                     n |-> Len(resp.rows),
                                                     wait |-> IF resp.kind = "ok" THEN 0
                                                              ELSE BomWait(bom.attempt)])]
       IN  IF resp.kind = "ok"
           THEN /\ bom' = AfterBody(b, resp)
                /\ UNCHANGED now
           ELSE /\ now' = now + BomWait(bom.attempt)
                /\ IF bom.attempt + 1 < BOM_RETRIES
                   THEN bom' = [b EXCEPT !.attempt = bom.attempt + 1]
                   ELSE bom' = BomRaise(b, "RuntimeError", "request_failed")
    /\ UNCHANGED <<settings, reconfigs, pc, metadata, dq, gd, wr>>
    /\ UNCHANGED limiterVars
    /\ UNCHANGED callVars

(* -------------------------- rivapi.get_data --------------------------- *)

\* A value is written as Python writes it; an argument is a value and the
\* name of the parameter of rivapi.get_data it came in as.
Arg(from, v) == [from |-> from, v |-> v]

\* the parameters of BaseClient.get_data after self, in order
ClientParameters ==
    <<"sites", "sites_from_metadata", "variable", "frequency", "statistic", "start", "end",
      "write", "output_dir", "overwrite", "append", "return_data">>

\* their default values
ClientDefaults ==
    [p \in {ClientParameters[i] : i \in 1..Len(ClientParameters)} |->
        Arg("default", IF p \in {"sites_from_metadata", "write", "overwrite", "append",
                                  "return_data"}
                       THEN "False" ELSE "None")]

\* the positional arguments of the call client.get_data(...) of rivapi.get_data
WrapperPositional ==
    <<"sites", "sites_from_metadata", "variable", "frequency", "start", "end", "write",
      "output_dir", "overwrite", "append", "return_data">>

\* Python's binding of positional arguments: the i-th value to the i-th
\* parameter, the default to the parameters that are left
BindPositional(params, defaults, values) ==
    [p \in DOMAIN defaults |->
        LET i == CHOOSE k \in 1..Len(params) : params[k] = p
        IN  IF i <= Len(values) THEN values[i] ELSE defaults[p]]

\* the arguments of rivapi.get_data: a window or none, every combination of
\* the flags, with or without an output directory
WrapperInputs ==
    [sites : {"['X']"}, sites_from_metadata : {"False"}, variable : {"None"},
     frequency : {"'daily'"}, start : {"None", "2020-01-01"}, end : {"None", "2020-01-31"},
     write : {"False", "True"}, output_dir : {"None", "'out'"},
     overwrite : {"False", "True"}, append : {"False", "True"},
     return_data : {"False", "True"}]

NoWrapperCall == [phase |-> "idle", args |-> << >>, bound |-> << >>, client |-> "-",
                  ret |-> "-"]

\* rivapi.get_data(...) up to the call of client.get_data
ModuleGetData(w) ==
    /\ wr.phase = "idle"
    /\ LET values == [i \in 1..Len(WrapperPositional) |->
                         Arg(WrapperPositional[i], w[WrapperPositional[i]])]
       IN  wr' = [wr EXCEPT !.phase = "client", !.args = w,
                            !.bound = BindPositional(ClientParameters, ClientDefaults, values)]
    /\ UNCHANGED <<settings, reconfigs, now, pc, metadata, dq, gd, bom>>
    /\ UNCHANGED limiterVars
    /\ UNCHANGED callVars

\* what client.get_data can end with: an exception, or data if return_data
\* else None
ClientResults(bound) ==
    {"raised", IF bound["return_data"].v = "True" THEN "map" ELSE "None"}

\* client.get_data has ended as res; the wrapper has no return statement
ModuleGetDataEnd(res) ==
    /\ wr.phase = "client"
    /\ res \in ClientResults(wr.bound)
    /\ wr' = IF res = "raised"
             THEN [wr EXCEPT !.phase = "raised", !.client = res]
             ELSE [wr EXCEPT !.phase = "returned", !.client = res, !.ret = "None"]
    /\ UNCHANGED <<settings, reconfigs, now, pc, metadata, dq, gd, bom>>
    /\ UNCHANGED limiterVars
    /\ UNCHANGED callVars

(* ------------------------------ callers ------------------------------- *)

\* client.get_data_single_site(site, variable, frequency, statistic, start, end)
CallStart(r) ==
    /\ pc[Main] = "idle"
    /\ Len(passes) < MaxFetches
    /\ req' = r
    /\ pc' = [pc EXCEPT ![Main] = "rl_now"]
    /\ UNCHANGED <<settings, reconfigs, now, metadata, retry, events, frame, q, httplog,
                   qret, sent, outcome>>
    /\ UNCHANGED limiterVars
    /\ UNCHANGED clientVars

\* the caller has the result (or the error) of the decorated call
Finish ==
    /\ pc[Main] = "done"
    /\ pc' = [pc EXCEPT ![Main] = "idle"]
    /\ retry' = NoRetry
    /\ events' = << >>
    /\ httplog' = << >>
    /\ qret' = << >>
    /\ outcome' = NoOutcome
    /\ q' = NoQuery
    /\ req' = NoRequest
    /\ frame' = NoFrame
    /\ UNCHANGED <<settings, reconfigs, now, metadata, sent>>
    /\ UNCHANGED limiterVars
    /\ UNCHANGED clientVars

Init ==
    /\ settings \in SettingsValues
    /\ reconfigs = 0
    /\ now = TicksPerSecond
    /\ interval = IntervalOf(settings.rate_limit)
    /\ last_called = 0
    /\ pc = [t \in Threads |-> "idle"]
    /\ rl = [t \in Threads |-> [now |-> 0, wait |-> 0]]
    /\ passes = << >>
    /\ req = NoRequest
    /\ metadata \in Metadatas \cup {PartialMeta}
    /\ retry = NoRetry
    /\ events = << >>
    /\ frame = NoFrame
    /\ q = NoQuery
    /\ httplog = << >>
    /\ qret = << >>
    /\ sent = 0
    /\ outcome = NoOutcome
    /\ dq = NoDirectQuery
    /\ gd = NoGetData
    /\ bom = NoBom
    /\ wr = NoWrapperCall

\* a call of some rate-limited function by thread t, seen from its limiter
LimitedCall(t, max) ==
    /\ pc[t] = "idle"
    /\ Len(passes) < max
    /\ pc' = [pc EXCEPT ![t] = "rl_now"]
    /\ UNCHANGED <<settings, reconfigs, now, metadata>>
    /\ UNCHANGED limiterVars
    /\ UNCHANGED callVars
    /\ UNCHANGED clientVars

\* return func(*args, **kwargs): the wrapped function runs and ends; it does
\* not touch the limiter, and the time it takes is Tick's
WrappedCall(t) ==
    /\ pc[t] = "call"
    /\ pc' = [pc EXCEPT ![t] = "idle"]
    /\ UNCHANGED <<settings, reconfigs, now, metadata>>
    /\ UNCHANGED limiterVars
    /\ UNCHANGED callVars
    /\ UNCHANGED clientVars

(* --------------------------- specifications --------------------------- *)

\* The fetch and the retry wrapper read neither rate_limit nor the limiter's
\* interval: the specification of the fetch leaves the rate at one value.
InitFetch ==
    /\ Init
    /\ settings.rate_limit = TicksPerSecond
    /\ metadata \in Metadatas

\* one client fetching single sites; the clock advances by the sleeps
Next ==
    \/ \E r \in Requests : CallStart(r)
    \/ RL_ReadNow(Main)
    \/ RL_Check(Main)
    \/ RL_Sleep(Main)
    \/ RL_Stamp(Main)
    \/ RetryEnter
    \/ Invoke
    \/ ChunkHead
    \/ \E resp \in Responses : HttpExchange(resp)
    \/ BackoffSleep
    \/ Finish

Spec == InitFetch /\ [][Next]_vars

\* single-site fetches of a client whose metadata table lacks a site's row
InitRow ==
    /\ Init
    /\ settings.rate_limit = TicksPerSecond
    /\ metadata = PartialMeta

SpecRow == InitRow /\ [][Next]_vars

\* the fetch of a client without metadata while the settings are changed
\* between its attempts
InitReconf ==
    /\ InitFetch
    /\ settings.backoff = 1
    /\ metadata = NoMeta

NextReconf ==
    \/ \E r \in {x \in Requests : x.end = x.start + 1} : CallStart(r)
    \/ RL_ReadNow(Main)
    \/ RL_Check(Main)
    \/ RL_Sleep(Main)
    \/ RL_Stamp(Main)
    \/ RetryEnter
    \/ Invoke
    \/ ChunkHead
    \/ \E resp \in Responses : HttpExchange(resp)
    \/ BackoffSleep
    \/ \E s \in SettingsValues : SetSettingsBetweenAttempts(s)
    \/ Finish

SpecReconf == InitReconf /\ [][NextReconf]_vars

\* The limiter reads neither retries nor backoff nor the metadata: the
\* specifications of the limiter alone leave them at one value.
LimiterSettings == {s \in SettingsValues : s.retries = MaxRetries /\ s.backoff = MaxBackoff}

InitLimiter ==
    /\ Init
    /\ settings \in LimiterSettings
    /\ metadata = NoMeta

\* one thread calling a rate-limited function again and again while time
\* passes and the settings are changed
NextLimiter ==
    \/ \E s \in LimiterSettings : SetSettings(s)
    \/ Tick
    \/ LimitedCall(Main, MaxCalls)
    \/ RL_ReadNow(Main)
    \/ RL_Check(Main)
    \/ RL_Sleep(Main)
    \/ RL_Stamp(Main)
    \/ WrappedCall(Main)

SpecLimiter == InitLimiter /\ [][NextLimiter]_vars

\* two threads calling the same rate-limited function
NextConc ==
    \/ Tick
    \/ \E t \in Threads :
        \/ LimitedCall(t, MaxConcCalls)
        \/ RL_ReadNow(t)
        \/ RL_Check(t)
        \/ RL_Sleep(t)
        \/ RL_Stamp(t)
        \/ WrappedCall(t)

SpecConc == InitLimiter /\ [][NextConc]_vars

\* The direct query and get_data read no setting.
ClientSettings == {s \in LimiterSettings : s.rate_limit = TicksPerSecond}

InitQuery ==
    /\ Init
    /\ settings \in ClientSettings
    /\ metadata = NoMeta

\* one direct call of do_api_query with any keyword arguments
NextDirect ==
    \/ /\ dq.phase = "idle"
       /\ \E params \in ParamSets : QueryCall(params)
    \/ \E resp \in QueryResponses : QueryRequest(resp)

SpecQuery == InitQuery /\ [][NextDirect]_vars

InitClient ==
    /\ Init
    /\ settings \in ClientSettings
    /\ metadata \in Metadatas

\* one call of get_data on a client of any of the three classes
NextClient ==
    \/ /\ gd.phase = "idle"
       /\ \E adapter \in Adapters, in \in GetDataInputs : GetDataCall(adapter, in)
    \/ \E res \in SiteResults : GetDataSite(res)
    \/ GetDataReturn

SpecClient == InitClient /\ [][NextClient]_vars

\* get_data on an Eaufrance client, every site fetched through the limiter,
\* the retry wrapper and the paginated query
InitSites ==
    /\ Init
    /\ settings.backoff = 1
    /\ metadata \in Metadatas

NextSites ==
    \/ /\ gd.phase = "idle"
       /\ \E in \in RunInputs : GetDataCall("Eaufrance", in)
    \/ SiteStart
    \/ RL_ReadNow(Main)
    \/ RL_Check(Main)
    \/ RL_Sleep(Main)
    \/ RL_Stamp(Main)
    \/ RetryEnter
    \/ Invoke
    \/ ChunkHead
    \/ \E resp \in Responses : HttpExchange(resp)
    \/ BackoffSleep
    \/ SiteEnd
    \/ GetDataReturn

SpecSites == InitSites /\ [][NextSites]_vars

\* one call into bom_helpers: the daily series of a station as the BOM client
\* asks for it, or get_timeseries with a timezone of the caller's
NextBom ==
    \/ /\ bom.phase = "idle"
       /\ \E in \in DailyInputs : BomDailyCall(in)
    \/ /\ bom.phase = "idle"
       /\ \E in \in TimeseriesInputs : BomTimeseriesCall(in)
    \/ /\ bom.phase = "request"
       /\ \E resp \in ResponsesTo(bom.request) : BomRequest(resp)

\* bom_helpers under every value of settings.retries and settings.backoff
InitBom ==
    /\ Init
    /\ settings.rate_limit = TicksPerSecond
    /\ metadata = NoMeta

SpecBom == InitBom /\ [][NextBom]_vars

\* one call of the module-level get_data
NextWrapper ==
    \/ \E w \in WrapperInputs : ModuleGetData(w)
    \/ \E res \in {"raised", "map", "None"} : ModuleGetDataEnd(res)

SpecWrapper == InitQuery /\ [][NextWrapper]_vars

\* get_metadata on an Eaufrance client and on a BOM client
NextMeta ==
    \/ StationsCall
    \/ \E resp \in QueryResponses : StationsRequest(resp)
    \/ \E variable \in VariableInputs : BomMetadataCall(variable)
    \/ /\ bom.phase = "request"
       /\ \E resp \in ResponsesTo(bom.request) : BomRequest(resp)

SpecMeta == InitQuery /\ [][NextMeta]_vars

(* ------------------------------- claims ------------------------------- *)

Done == pc[Main] = "done"

\* the events of the decorated call that are invocations of the operation
Invocations == {i \in 1..Len(events) : events[i].ev \in {"fail", "ok"}}
Fails == {i \in 1..Len(events) : events[i].ev = "fail"}
Sleeps == {i \in 1..Len(events) : events[i].ev = "sleep"}
LastEvent == events[Len(events)]

\* C1: with retries = R >= 1 and backoff = B, a decorated call whose operation
\* failed transiently k times (k = R - 1 at most) and then succeeded has
\* returned that success value after exactly k + 1 invocations and exactly k
\* sleeps, the i-th of B * 2^(i-1), each between a failed attempt and the next
\* attempt.
C1_RetryThenSuccess ==
    (Done /\ retry.n >= 1 /\ events # << >> /\ LastEvent.ev = "ok")
    => LET k == Cardinality(Fails)
       IN  /\ k + 1 <= retry.n
           /\ Len(events) = 2 * k + 1
           /\ \A i \in 1..k :
                /\ events[2 * i - 1].ev = "fail"
                /\ IsRequestException(events[2 * i - 1].error.cls)
                /\ events[2 * i].ev = "sleep"
                /\ events[2 * i].d = settings.backoff * Pow2(i - 1)
           /\ Cardinality(Invocations) = k + 1
           /\ Cardinality(Sleeps) = k
           /\ outcome = LastEvent.result
           /\ outcome.kind = "returned"

\* three transient failures, then a table: R = 4, sleeps B, 2B and 4B with B = 2
C1_Witness ==
    /\ Done
    /\ retry.n = 4
    /\ settings.backoff = 2
    /\ Cardinality(Fails) = 3
    /\ LastEvent.ev = "ok"
    /\ outcome.kind = "returned"
    /\ ~outcome.none

\* C2: with retries = R >= 1, a decorated call whose operation failed
\* transiently on every invocation has invoked it exactly R times and has
\* raised the error of the R-th invocation unchanged; it returned no value.
C2_ExhaustedReraises ==
    /\ Cardinality(Invocations) <= Max(retry.n, 0)
    /\ (Done /\ retry.n >= 1 /\ events # << >> /\ LastEvent.ev = "fail"
          /\ \A i \in Invocations : events[i].ev = "fail"
                                    /\ IsRequestException(events[i].error.cls))
       => /\ Cardinality(Invocations) = retry.n
          /\ outcome.kind = "raised"
          /\ outcome.error = LastEvent.error
          /\ outcome.value = << >>

\* three attempts, three transient failures, the third one raised
C2_Witness ==
    /\ Done
    /\ retry.n = 3
    /\ Cardinality(Fails) = 3
    /\ \A i \in Fails : IsRequestException(events[i].error.cls)
    /\ outcome.kind = "raised"
    /\ outcome.error.at = 3

\* what the spec calls non-transient: validation errors, the record-count
\* cap, server field messages, a malformed body of a successful response
NonTransientKinds == {"validation", "limit", "field_errors", "malformed"}

\* C3: an operation that raises a non-transient error is invoked exactly once:
\* the failure is the only event of the decorated call, which ends raising
\* that error, with no backoff sleep and no second attempt.
C3_NonTransientNotRetried ==
    \A i \in Fails :
        (i = 1 /\ events[i].error.kind \in NonTransientKinds)
        => /\ Len(events) = 1
           /\ Done
           /\ outcome = Raised(events[i].error)

\* the statuses a client retries: the service is unavailable, not the request wrong
RetriableStatuses == {503}

\* C4: a fetch that got an HTTP error response with a retriable status is
\* attempted again after a backoff sleep while attempts are left: it only ends
\* on such a response when all settings.retries attempts are used.
C4_RetriableStatusRetried ==
    \A i \in Fails :
        (events[i].error.status \in RetriableStatuses
           /\ Cardinality({j \in Fails : j <= i}) < retry.n)
        => /\ ~(Done /\ i = Len(events))
           /\ (i < Len(events) => events[i + 1].ev = "sleep")

\* C5: the instants at which the limiter lets consecutive calls of one thread
\* through are at least the function's interval 1/r apart, N calls take at
\* least (N-1)/r in all, and the first call is not delayed.
C5_SequentialPacing ==
    /\ \A i \in 1..(Len(passes) - 1) : passes[i + 1].at - passes[i].at >= interval
    /\ passes # << >> =>
         /\ passes[Len(passes)].at - passes[1].at >= (Len(passes) - 1) * interval
         /\ ~passes[1].slept
    /\ pc[Main] = "rl_sleep" => passes # << >>

\* three calls, the second and the third delayed by the limiter
C5_Witness ==
    /\ Len(passes) = 3
    /\ passes[2].slept
    /\ passes[3].slept
    /\ interval = TicksPerSecond

\* C6: the limiter paces with the rate limit in force when the call is made:
\* a call let through after an earlier one is at least 1/settings.rate_limit
\* after it, and is not held back longer than that.
C6_RereadsRateLimit ==
    (pc[Main] = "call" /\ Len(passes) >= 2)
    => LET n == Len(passes)
       IN  /\ passes[n].at - passes[n - 1].at >= IntervalOf(settings.rate_limit)
           /\ passes[n].slept =>
                rl[Main].wait <= IntervalOf(settings.rate_limit)

\* C7: two threads calling the same rate-limited function are let through at
\* least one interval apart, in every interleaving.
C7_ConcurrentCallersSerialize ==
    \A i, j \in 1..Len(passes) :
        (i < j /\ passes[i].t # passes[j].t)
        => passes[j].at - passes[i].at >= interval

\* C8: any two consecutive HTTP requests of a decorated fetch are at least
\* 1/rate_limit apart.
C8_EveryRequestPaced ==
    \A i \in 1..(Len(httplog) - 1) : httplog[i + 1].at - httplog[i].at >= interval

\* the requests of the k-th do_api_query that returned, in order
PagesOf(k) == SelectSeq(httplog, LAMBDA h : h.qid = qret[k].id)

\* 206 pages carrying a continuation URL, then one 200 page.  A page is a
\* decodable body reporting a count from 1 to the ceiling: a count of zero is
\* the service's end-of-data signal, a count over the ceiling the limit error
CleanPagination(pages) ==
    /\ pages # << >>
    /\ pages[Len(pages)].resp.status = 200
    /\ \A i \in 1..(Len(pages) - 1) :
         pages[i].resp.status = 206 /\ pages[i].resp.next # NoURL
    /\ \A i \in 1..Len(pages) :
         /\ pages[i].resp.body = "json"
         /\ pages[i].resp.count \in 1..API_LIMIT

C10_OverLimitFailsFast ==
    \A i \in 1..Len(httplog) :
        (httplog[i].resp.status \in 200..399 /\ httplog[i].resp.body = "json"
           /\ httplog[i].resp.count > 20000)
        => /\ i = Len(httplog)
           /\ Done
           /\ outcome.kind = "raised"
           /\ outcome.error = Error("ValueError", "limit", httplog[i].resp.status, i)
           /\ outcome.value = << >>
           /\ LastEvent.ev = "fail"
           /\ LastEvent.error = outcome.error
           /\ \A k \in 1..Len(qret) : qret[k].id # httplog[i].qid

\* a partial page over the ceiling, met after a page within it, with attempts left
C10_Witness ==
    /\ Done
    /\ Len(httplog) = 2
    /\ httplog[1].resp.status = 206
    /\ httplog[2].resp.count = API_LIMIT + 1
    /\ retry.n >= 2
    /\ retry.attempt = 0
    /\ outcome.error.kind = "limit"

\* a response on which the pagination is over: a decodable success within
\* the ceiling that carries no continuation URL, reports no record, or is
\* not partial content
Terminal(resp) ==
    /\ resp.status # NetErr
    /\ resp.status < 400
    /\ resp.body = "json"
    /\ resp.count <= API_LIMIT
    /\ (resp.next = NoURL \/ resp.count = 0 \/ resp.status # 206)

\* C11: after a response on which the pagination is over, do_api_query has
\* returned and has issued no further request.
C11_PaginationTerminates ==
    \A i \in 1..Len(dq.log) :
        Terminal(dq.log[i].resp) => (i = Len(dq.log) /\ dq.phase = "returned")

\* the value sent for a list of one or two strings: its items, commas between
CommaJoined(items) ==
    IF Len(items) = 1 THEN items[1] ELSE items[1] \o <<",">> \o items[2]

\* C12: a direct query with a key outside the endpoint's fields has raised a
\* validation error naming such a key and has issued no request; with allowed
\* keys only, the first request carries every parameter that is not None, in
\* order, a list as its items joined with commas.
C12_KeysValidatedFirst ==
    dq.phase # "idle"
    => LET bad == {i \in 1..Len(dq.params) : dq.params[i][1] \notin ObsElabFields}
           given == SelectSeq(dq.params, LAMBDA kv : kv[2].kind # "none")
       IN  IF bad # {}
           THEN /\ dq.phase = "raised"
                /\ dq.error.cls = "ValueError"
                /\ dq.error.kind = "validation"
                /\ dq.error.key \in {dq.params[i][1] : i \in bad}
                /\ dq.log = << >>
           ELSE dq.log # << >>
                => LET sentp == dq.log[1].url[3]
                   IN  /\ Len(sentp) = Len(given)
                       /\ \A i \in 1..Len(given) :
                            /\ sentp[i][1] = given[i][1]
                            /\ sentp[i][2] = IF given[i][2].kind = "list"
                                             THEN CommaJoined(given[i][2].items)
                                             ELSE given[i][2].s

\* an allowed key with a list, then an unknown key: rejected with no request
C12_Witness ==
    /\ dq.phase = "raised"
    /\ Len(dq.params) = 2
    /\ dq.params[1][1] = "code_entite"
    /\ dq.params[1][2].kind = "list"
    /\ dq.params[2][1] = "format"
    /\ dq.error.key = "format"
    /\ dq.log = << >>

\* get_data got past _parse_arguments
ArgsParsed ==
    \/ gd.phase \in {"loop", "returned"}
    \/ gd.phase = "raised" /\ gd.error.at \in {"get_data_single_site", "write_data"}

\* the value is None, or the mapping is empty, or every element is a key of it
Known(mapping, arg) ==
    \/ arg.kind = "none"
    \/ DOMAIN mapping = {}
    \/ arg.kind = "str" /\ arg.s \in DOMAIN mapping
    \/ arg.kind = "list" /\ \A i \in 1..Len(arg.items) : arg.items[i] \in DOMAIN mapping

\* what a mapping makes of a value all of whose elements are its keys
Mapped(mapping, arg) ==
    IF arg.kind = "none" \/ DOMAIN mapping = {} THEN arg
    ELSE IF arg.kind = "str" THEN PStr(mapping[arg.s])
    ELSE PList([i \in 1..Len(arg.items) |-> mapping[arg.items[i]]])

\* C13: when normalization succeeds, each of variable, frequency and statistic
\* is the value itself under an empty or absent mapping, the mapped code for a
\* scalar, and the list of mapped codes, same length and order, for a list
\* (NWIS discharge -> 00060, daily -> dv; BOM discharge -> Water Course
\* Discharge); Eaufrance then renders the three mapped values into one code.
C13_MappingDeterministic ==
    (/\ ArgsParsed
     /\ Known(VARIABLE_MAP(gd.adapter), gd.in.variable)
     /\ Known(FREQUENCY_MAP(gd.adapter), gd.in.frequency)
     /\ Known(STATISTIC_MAP(gd.adapter), gd.in.statistic))
    => LET v == Mapped(VARIABLE_MAP(gd.adapter), gd.in.variable)
           f == Mapped(FREQUENCY_MAP(gd.adapter), gd.in.frequency)
           st == Mapped(STATISTIC_MAP(gd.adapter), gd.in.statistic)
       IN  /\ gd.adapter \in {"NWIS", "BOM"}
              => /\ gd.args.variable = v
                 /\ gd.args.frequency = f
                 /\ gd.args.statistic = st
                 /\ gd.args.statistic = gd.in.statistic
                 /\ Len(gd.args.variable.items) = Len(gd.in.variable.items)
           /\ gd.adapter = "BOM" => gd.args.frequency = gd.in.frequency
           /\ gd.adapter = "Eaufrance"
              => gd.args.variable = PStr(Format(v) \o Format(st) \o Format(f))
           /\ (gd.adapter = "NWIS" /\ gd.in.variable = PStr(<<"discharge">>))
              => gd.args.variable = PStr(<<"00060">>)
           /\ (gd.adapter = "NWIS" /\ gd.in.frequency = PStr(<<"daily">>))
              => gd.args.frequency = PStr(<<"dv">>)
           /\ (gd.adapter = "BOM" /\ gd.in.variable = PStr(<<"discharge">>))
              => gd.args.variable = PStr(<<"Water Course Discharge">>)

\* NWIS: a list of two variables mapped in order, a statistic passed through
C13_Witness ==
    /\ gd.phase = "loop"
    /\ gd.adapter = "NWIS"
    /\ gd.in.variable = PList(<<<<"discharge">>, <<"stage">>>>)
    /\ gd.args.variable = PList(<<<<"00060">>, <<"00065">>>>)
    /\ gd.in.frequency = PStr(<<"daily">>)
    /\ gd.in.statistic = PStr(<<"mean">>)
    /\ gd.args.statistic = PStr(<<"mean">>)

\* the canonical triples the Eaufrance adapter accepts
EaufranceAccepted ==
    /\ gd.adapter = "Eaufrance"
    /\ gd.in.variable \in {PStr(<<"discharge">>), PStr(<<"stage">>)}
    /\ gd.in.statistic \in {PStr(<<"mean">>), PStr(<<"maximum">>), PStr(<<"minimum">>)}
    /\ gd.in.frequency \in {PStr(<<"daily">>), PStr(<<"monthly">>)}
    /\ ~(gd.in.variable = PStr(<<"stage">>)
         /\ gd.in.statistic \in {PStr(<<"mean">>), PStr(<<"minimum">>)})

\* C14: for every accepted Eaufrance triple, the normalized variable is the
\* variable code, the statistic code and the frequency code in a row, it is
\* one of the documented elaborated quantities, and frequency and statistic
\* are cleared.
C14_CompositeDocumented ==
    (ArgsParsed /\ EaufranceAccepted)
    => /\ gd.args.variable.kind = "str"
       /\ gd.args.variable.s = VARIABLE_MAP("Eaufrance")[gd.in.variable.s]
                                 \o STATISTIC_MAP("Eaufrance")[gd.in.statistic.s]
                                 \o FREQUENCY_MAP("Eaufrance")[gd.in.frequency.s]
       /\ gd.args.variable.s \in OBS_ELAB_VARIABLES
       /\ gd.args.frequency = PNone
       /\ gd.args.statistic = PNone

\* the mapping an argument of get_data is looked up in
MappingAt(adapter, at) ==
    CASE at = "variable" -> VARIABLE_MAP(adapter)
      [] at = "frequency" -> FREQUENCY_MAP(adapter)
      [] at = "statistic" -> STATISTIC_MAP(adapter)

\* C15: a value that is no key of a non-empty mapping makes normalization fail
\* with a validation error that names the value and the set of valid values
\* (the mapping's keys), and no site is fetched.
C15_UnknownValueNamed ==
    (gd.phase = "raised" /\ gd.error.at \in {"variable", "frequency", "statistic"})
    => /\ gd.error.cls = "ValueError"
       /\ gd.error.value \notin DOMAIN MappingAt(gd.adapter, gd.error.at)
       /\ gd.error.value \in {gd.in[gd.error.at].s}
                               \cup {gd.in[gd.error.at].items[i] :
                                       i \in 1..Len(gd.in[gd.error.at].items)}
       /\ gd.error.valid = DOMAIN MappingAt(gd.adapter, gd.error.at)
       /\ gd.invoked = << >>

\* C16: with start > end, get_data of every adapter fails with a validation
\* error and get_data_single_site is never invoked.
C16_InvertedWindowRejected ==
    (gd.phase # "idle" /\ gd.in.start > gd.in.end)
    => /\ gd.phase = "raised"
       /\ gd.error.cls = "ValueError"
       /\ gd.invoked = << >>

\* C17: Eaufrance get_data with variable stage and statistic mean or minimum
\* fails with a validation error before any site is fetched, for every
\* frequency; stage with maximum, daily or monthly, is accepted.
C17_StageNeedsMaximum ==
    (gd.phase # "idle" /\ gd.adapter = "Eaufrance" /\ gd.in.variable = PStr(<<"stage">>))
    => /\ gd.in.statistic \in {PStr(<<"mean">>), PStr(<<"minimum">>)}
          => /\ gd.phase = "raised"
             /\ gd.error.cls = "ValueError"
             /\ gd.invoked = << >>
       /\ (gd.in.statistic = PStr(<<"maximum">>)
             /\ gd.in.frequency \in {PStr(<<"daily">>), PStr(<<"monthly">>)}
             /\ gd.in.start <= gd.in.end
             /\ gd.sites # << >>)
          => ArgsParsed

\* monthly minimum stage, sites and window in order: rejected by the stage check
C17_Witness ==
    /\ gd.phase = "raised"
    /\ gd.adapter = "Eaufrance"
    /\ gd.error.at = "stage"
    /\ gd.in.variable = PStr(<<"stage">>)
    /\ gd.in.statistic = PStr(<<"minimum">>)
    /\ gd.in.frequency = PStr(<<"monthly">>)
    /\ gd.sites # << >>
    /\ gd.invoked = << >>

\* the first occurrences of the sites of a list, in order
RECURSIVE FirstOccurrences(_)
FirstOccurrences(l) ==
    IF l = << >> THEN << >>
    ELSE <<Head(l)>> \o FirstOccurrences(SelectSeq(Tail(l), LAMBDA x : x # Head(l)))

\* C18: get_sites resolves the explicit sites, followed by the sites of the
\* loaded metadata table when sites_from_metadata is set, to their first
\* occurrences in order.
C18_SitesMergedInOrder ==
    (gd.phase # "idle" /\ (gd.in.sites_from_metadata => metadata.loaded))
    => LET all == SitesAsList(gd.in.sites)
                    \o (IF gd.in.sites_from_metadata THEN MetadataSites(metadata) ELSE << >>)
       IN  all # << >>
           => /\ gd.sites = FirstOccurrences(all)
              /\ FirstOccurrences(gd.sites \o all) = gd.sites
              /\ gd.error.at \notin {"no_metadata", "truth_value", "no_sites"}

\* C19: with no explicit site and no site from metadata, get_data fails with a
\* validation error raised by get_sites: no argument is normalized and
\* get_data_single_site is never invoked.
C19_NoSitesRejected ==
    (gd.phase # "idle" /\ SitesAsList(gd.in.sites) = << >>
       /\ (~gd.in.sites_from_metadata \/ ~metadata.loaded))
    => /\ gd.phase = "raised"
       /\ gd.error.cls = "ValueError"
       /\ gd.error.at \in {"no_sites", "no_metadata"}
       /\ gd.args = NoArgs
       /\ gd.invoked = << >>

\* an empty list of sites together with an unknown variable: the missing
\* sites are reported, the variable is never looked at
C19_Witness ==
    /\ gd.phase = "raised"
    /\ gd.in.sites = PList(<< >>)
    /\ ~gd.in.sites_from_metadata
    /\ gd.in.variable = PStr(<<"flow">>)
    /\ gd.error.at = "no_sites"

\* the smallest n with n * c >= d
CeilDiv(d, c) == (d + c - 1) \div c

\* the window a fetch works on: the request's, clamped to the station's row
WindowStart ==
    IF metadata.loaded /\ RowsOf(req.site) # << >>
    THEN ClampStart(req.start, RowsOf(req.site)[1].date_ouverture_station)
    ELSE req.start
WindowEnd ==
    IF metadata.loaded /\ RowsOf(req.site) # << >>
    THEN ClampEnd(req.end, RowsOf(req.site)[1].date_fermeture_station)
    ELSE req.end

\* the first request of every chunk query, in the order issued
ChunkRequests == SelectSeq(httplog, LAMBDA h : h.url[1] = "GET")

\* a daily fetch that returned at its first attempt, over a window with days in it
DailyFetchReturned ==
    /\ Done
    /\ outcome.kind = "returned"
    /\ EndsWithJ(req.variable)
    /\ Len(events) = 1
    /\ events[1].ev = "ok"
    /\ WindowStart <= WindowEnd

\* the chunks follow one another day by day from start to end
ChunksPartition(chunks, start, end) ==
    /\ chunks # << >>
    /\ chunks[1].url[3].date_debut_obs_elab = start
    /\ chunks[Len(chunks)].url[3].date_fin_obs_elab = end
    /\ \A i \in 1..Len(chunks) :
         chunks[i].url[3].date_debut_obs_elab <= chunks[i].url[3].date_fin_obs_elab
    /\ \A i \in 1..(Len(chunks) - 1) :
         chunks[i + 1].url[3].date_debut_obs_elab = chunks[i].url[3].date_fin_obs_elab + 1

\* the days of the span from start to end, counted without or with the end day
SpanDays(start, end) == {end - start, end - start + 1}

\* C20: a daily fetch over a span of D days issues exactly ceil(D / MAX_RECORDS)
\* chunk requests, in increasing date order, whose sub-ranges are contiguous
\* at day granularity, do not overlap, and together cover [start, end].
C20_ChunkCountAndPartition ==
    DailyFetchReturned
    => /\ \E d \in SpanDays(WindowStart, WindowEnd) :
            Len(ChunkRequests) = CeilDiv(d, MAX_RECORDS)
       /\ ChunksPartition(ChunkRequests, WindowStart, WindowEnd)

\* the days of the inclusive sub-range of a chunk request
ChunkSpan(h) == h.url[3].date_fin_obs_elab - h.url[3].date_debut_obs_elab + 1

\* C21: the inclusive date sub-range of every chunk request of a daily fetch
\* covers at most 20000 days.
C21_ChunkWithinCap ==
    \A i \in 1..Len(httplog) :
        (httplog[i].url[1] = "GET" /\ EndsWithJ(httplog[i].url[3].grandeur_hydro_elab))
        => ChunkSpan(httplog[i]) <= 20000

\* the do_api_query calls of the fetch that returned are one, asked for the
\* whole window in its first request
OneQueryOverWindow ==
    /\ Len(qret) = 1
    /\ Len(ChunkRequests) = 1
    /\ ChunkRequests[1].url[3].date_debut_obs_elab = WindowStart
    /\ ChunkRequests[1].url[3].date_fin_obs_elab = WindowEnd

\* a monthly fetch that ended at its first attempt, its query having returned
MonthlyFetchEnded ==
    /\ Done
    /\ ~EndsWithJ(req.variable)
    /\ Len(events) = 1
    /\ qret # << >>

\* C24: a monthly fetch is one paginated query over the whole window; its
\* result is the table of the returned records when there are any, and the
\* no-data marker when there are none.
C24_MonthlyUnchunked ==
    MonthlyFetchEnded
    => /\ OneQueryOverWindow
       /\ outcome.kind = "returned"
       /\ qret[1].data # << >> => (~outcome.none /\ outcome.value = qret[1].data)
       /\ qret[1].data = << >> => outcome.none

\* l is the start of m
IsPrefix(l, m) == Len(l) <= Len(m) /\ SubSeq(m, 1, Len(l)) = l

\* C26: get_data calls get_data_single_site once per resolved site, in list
\* order, each time with the normalized arguments; when the loop completes it
\* returns the mapping of exactly the resolved sites to their results if
\* return_data is set, and None otherwise.
C26_OncePerSiteInOrder ==
    /\ gd.phase # "idle"
         => /\ IsPrefix(gd.invoked, gd.sites)
            /\ Len(gd.calls) = Len(gd.invoked)
            /\ \A i \in 1..Len(gd.calls) :
                 gd.calls[i] = ParseArguments(gd.adapter, gd.in).args
    /\ gd.phase = "returned"
         => /\ gd.invoked = gd.sites
            /\ gd.sites = FirstOccurrences(gd.sites)
            /\ gd.in.return_data
                 => /\ gd.ret = "map"
                    /\ [i \in 1..Len(gd.data) |-> gd.data[i][1]] = gd.sites
                    /\ gd.data = gd.fetched
            /\ ~gd.in.return_data => gd.ret = "none"

\* two sites fetched, one with a table and one without data, and returned
C26_Witness ==
    /\ gd.phase = "returned"
    /\ gd.in.return_data
    /\ gd.invoked = <<W("A"), W("B")>>
    /\ gd.data = <<<<W("A"), "table">>, <<W("B"), "none">>>>

\* C29: with write set, the table fetched for a site is written to the site's
\* file right after the fetch: a missing file is created with a header, an
\* existing one is replaced under overwrite, extended without a second header
\* under append alone, and left as it is with a file-exists error otherwise.
C29_WriteHonoursMode ==
    (gd.phase # "idle" /\ gd.in.write)
    => \A i \in 1..Len(gd.fetched) :
          gd.fetched[i][2] = "table"
          => LET site == gd.fetched[i][1]
                 w == WriteData(Files[site], TableRows, gd.in.overwrite, gd.in.append)
             IN  /\ gd.files[site] = w.file
                 /\ w.ok => ~(gd.phase = "raised" /\ gd.error.value = site)
                 /\ ~w.ok => /\ gd.phase = "raised"
                              /\ gd.error = ClientError("FileExistsError", "write_data",
                                                         site, {})

\* the site whose fetch issued the query qid: the code_entite of its first request
QuerySite(qid) ==
    LET j == CHOOSE j \in 1..Len(httplog) :
                 httplog[j].qid = qid /\ httplog[j].url[1] = "GET"
    IN  httplog[j].url[3].code_entite

\* the HTTP requests made for a site, continuation pages included
RequestsFor(site) == SelectSeq(httplog, LAMBDA h : QuerySite(h.qid) = site)

\* [max(start, station_open), min(end, station_closed)] for a site of the
\* metadata table, the requested window without metadata
ClampedWindow(site) ==
    IF metadata.loaded
    THEN LET row == RowsOf(site)[1]
             open == row.date_ouverture_station
             closed == row.date_fermeture_station
         IN  <<IF open # << >> THEN Max(gd.args.start, open[1]) ELSE gd.args.start,
               IF closed # << >> THEN Min(gd.args.end, closed[1]) ELSE gd.args.end>>
    ELSE <<gd.args.start, gd.args.end>>

InvertedAtSite(site) == ClampedWindow(site)[1] > ClampedWindow(site)[2]

\* C23: with metadata, every request for a site asks for dates within
\* [max(start, station_open), min(end, station_closed)]; a site whose clamped
\* window is inverted gets the no-data marker and no HTTP request, so that
\* get_data over such a site and others returns the marker for it, having
\* issued requests for the others only.
C23_ClampedWindow ==
    gd.phase # "idle"
    => /\ \A i \in 1..Len(httplog) :
            httplog[i].url[1] = "GET"
            => LET w == ClampedWindow(httplog[i].url[3].code_entite)
               IN  /\ w[1] <= httplog[i].url[3].date_debut_obs_elab
                   /\ httplog[i].url[3].date_debut_obs_elab
                        <= httplog[i].url[3].date_fin_obs_elab
                   /\ httplog[i].url[3].date_fin_obs_elab <= w[2]
       /\ \A k \in 1..Len(gd.invoked) :
            InvertedAtSite(gd.invoked[k][1])
            => /\ RequestsFor(gd.invoked[k][1]) = << >>
               /\ k <= Len(gd.fetched) => gd.fetched[k] = <<gd.invoked[k], "none">>
               /\ (gd.phase = "returned" /\ gd.in.return_data)
                    => gd.data[k] = <<gd.invoked[k], "none">>

\* sites [X, Y], Y closed before the start: X's table and Y's marker are
\* returned, all requests were X's, for its window clamped to the opening day
C23_Witness ==
    /\ gd.phase = "returned"
    /\ metadata.loaded
    /\ gd.data = <<<<W("X"), "table">>, <<W("Y"), "none">>>>
    /\ InvertedAtSite("Y")
    /\ httplog # << >>
    /\ \A i \in 1..Len(httplog) :
         /\ httplog[i].url[1] = "GET"
         /\ httplog[i].url[3].code_entite = "X"
         /\ httplog[i].url[3].date_debut_obs_elab = 11

\* get_data has returned or raised
GetDataOver == gd.phase \in {"returned", "raised"}

\* C27: a site's failure that is not an exhaustion of the retries (a limit
\* error, a server validation error) does not abort the loop: every later
\* site of the list still has get_data_single_site called for it.
C27_HardFailureIsolated ==
    GetDataOver
    => \A i \in 1..Len(gd.fetched) :
          gd.fetched[i][2] = "hard"
          => \A j \in (i + 1)..Len(gd.sites) :
                j <= Len(gd.invoked) /\ gd.invoked[j] = gd.sites[j]

\* C28: when the retry wrapper gives up on a site, the exception leaves
\* get_data: the site is the last one fetched, no later site has
\* get_data_single_site called or an HTTP request made for it, and get_data
\* returns nothing.
C28_ExhaustionHalts ==
    \A i \in 1..Len(gd.fetched) :
        gd.fetched[i][2] = "exhausted"
        => /\ i = Len(gd.fetched)
           /\ Len(gd.invoked) = i
           /\ gd.phase = "raised"
           /\ gd.error = SiteError(gd.sites[i], "exhausted")
           /\ gd.ret = "-"
           /\ pc[Main] = "idle"
           /\ \A j \in (i + 1)..Len(gd.sites) : RequestsFor(gd.sites[j][1]) = << >>

\* the first of two sites failed on every attempt, retried at least once
C28_Witness ==
    /\ gd.phase = "raised"
    /\ gd.sites = <<W("X"), W("Y")>>
    /\ gd.fetched = <<<<W("X"), "exhausted">>>>
    /\ settings.retries >= 2
    /\ Len(httplog) >= 2
    /\ RequestsFor("Y") = << >>

\* the chunks of the daily fetch that returned were all without records
AllChunksEmpty == \A k \in 1..Len(qret) : qret[k].data = << >>

\* C22: a site and range without records give the no-data marker, not an
\* empty table: an Eaufrance daily fetch whose chunks are all empty returns
\* None, and so does a BOM fetch whose time-series response has no data rows.
C22_NoDataMarker ==
    /\ (DailyFetchReturned /\ AllChunksEmpty) => outcome.none
    /\ (bom.phase = "returned" /\ bom.op \in {"get_daily", "get_timeseries"}
          /\ bom.result.rows = << >>)
       => bom.result.none

\* the jurisdiction label of the station the list names first
Label(stations) == IF stations[1][1] = " -" THEN "" ELSE stations[1][1]

\* the documented zone of a jurisdiction label
ZoneOfLabel(label) ==
    CASE label \in {"ACT", "ACTNSW", "NSW", "QLD", "TAS", "VIC"} -> "Australia/Queensland"
      [] label \in {"SA", "NT"} -> "Australia/Darwin"
      [] label = "WA" -> "Australia/Perth"
      [] OTHER -> "UTC"

\* C25: without a timezone, get_timeseries resolves the zone from the
\* station's jurisdiction label alone (the eastern labels to
\* Australia/Queensland, SA and NT to Australia/Darwin, WA to Australia/Perth,
\* any other to UTC with a warning, the fetch going on); with a timezone, one
\* outside the registry is rejected before any request and a valid one is
\* used as given.
C25_TimezoneResolution ==
    (bom.op \in {"get_daily", "get_timeseries"} /\ ~bom.in.many)
    => /\ (bom.in.tz = NoTz /\ bom.stations # << >>)
            => /\ bom.tz = ZoneOfLabel(Label(bom.stations))
               /\ bom.warned <=> bom.tz = "UTC"
               /\ bom.error.at \notin {"tz", "invalid_station"}
               /\ bom.in.start <= bom.in.end
                    => bom.request \in {"getTimeseriesList", "getTimeseriesValues"}
       /\ (bom.in.tz # NoTz /\ bom.in.tz \notin AllTimezones)
            => /\ bom.phase = "raised"
               /\ bom.error = ClientError("ValueError", "tz", << >>, {})
               /\ bom.log = << >>
       /\ (bom.in.tz \in AllTimezones /\ bom.stations # << >>)
            => /\ bom.tz = bom.in.tz
               /\ ~bom.warned

\* a station of an unlisted jurisdiction: UTC, warned, and the series fetched
C25_Witness ==
    /\ bom.phase = "returned"
    /\ bom.in.tz = NoTz
    /\ Label(bom.stations) = "Other"
    /\ bom.tz = "UTC"
    /\ bom.warned
    /\ bom.result.rows # << >>

\* the last request of the call into bom_helpers was answered without a match
\* or without a row
BomNothingFound ==
    /\ bom.log # << >>
    /\ bom.log[Len(bom.log)].ok
    /\ ~bom.log[Len(bom.log)].matches \/ bom.log[Len(bom.log)].n = 0

\* the last page of the stations query reported no record
StationsNothingFound ==
    /\ dq.log # << >>
    /\ dq.log[Len(dq.log)].resp.status \in 200..399
    /\ dq.log[Len(dq.log)].resp.body = "json"
    /\ dq.log[Len(dq.log)].resp.count = 0

\* C30: get_metadata on an upstream result that is empty or reports no match
\* completes without error and leaves the client with an empty metadata
\* table: for BOM on the "No matches." sentinel, for Eaufrance on a count of
\* zero.
C30_EmptyMetadata ==
    /\ (bom.op = "get_metadata" /\ BomNothingFound)
       => /\ bom.phase = "returned"
          /\ bom.metadata = [loaded |-> TRUE, rows |-> << >>]
    /\ (dq.phase # "idle" /\ StationsNothingFound)
       => /\ dq.phase = "returned"
          /\ metadata = [loaded |-> TRUE, rows |-> << >>]

\* the requests.get calls of the request the call into bom_helpers made last
LastRequestAttempts ==
    {i \in 1..Len(bom.log) :
        /\ bom.log[i].request = bom.request
        /\ \A j \in i..Len(bom.log) : bom.log[j].request = bom.request}

\* the call ended because every attempt of one request failed
BomAttemptsExhausted ==
    /\ bom.phase = "raised"
    /\ bom.log # << >>
    /\ \A i \in LastRequestAttempts : ~bom.log[i].ok
    /\ bom.error.at \notin {"no_matches", "invalid_station", "dates", "ts_id"}

\* the classes of the errors requests.get and raise_for_status raise
BomTransportClasses == {"HTTPError", "RequestException", "ConnectionError", "Timeout"}

\* C31: a BOM request that fails transiently on every attempt is attempted
\* settings.retries times, the sleep after the i-th failed attempt that has a
\* successor is settings.backoff * 2^(i-1), and the error that leaves the
\* call is the transport error of the last attempt.
C31_BomRetryFollowsSettings ==
    BomAttemptsExhausted
    => /\ Cardinality(LastRequestAttempts) = settings.retries
       /\ \A i \in LastRequestAttempts :
             (i + 1) \in LastRequestAttempts
             => bom.log[i].wait
                  = settings.backoff * Pow2(Cardinality({j \in LastRequestAttempts : j < i}))
       /\ bom.error.cls \in BomTransportClasses

\* the window of the request the service was asked last
LastAsked == <<httplog[Len(httplog)].url[3].date_debut_obs_elab,
               httplog[Len(httplog)].url[3].date_fin_obs_elab>>

\* C32: get_data and get_data_single_site change neither the client's
\* metadata table nor the normalized arguments: every step of a run leaves
\* both as they were, and every site's fetch is called with the window of
\* the normalized arguments, whatever window an earlier site was clamped to.
C32_FetchLeavesSharedState ==
    /\ []((gd.phase = "loop" /\ pc[Main] # "idle")
            => /\ <<req.start, req.end>> = <<gd.args.start, gd.args.end>>
               /\ gd.calls[Len(gd.calls)] = gd.args)
    /\ [][/\ metadata' = metadata
          /\ gd.phase # "idle" => gd'.args = gd.args]_vars

\* X was fetched for its window clamped to the opening day, and Y's fetch
\* is running with the caller's window
C32_Witness ==
    /\ gd.phase = "loop"
    /\ gd.invoked = <<W("X"), W("Y")>>
    /\ pc[Main] = "invoke"
    /\ metadata.loaded
    /\ httplog # << >>
    /\ LastAsked = <<11, 11>>
    /\ <<req.start, req.end>> = <<10, 11>>

\* C33: a decorated call that is over has invoked the operation at least
\* once; it has returned only if its last invocation returned; and if every
\* invocation failed it has raised.  For every settings.retries, 0 included,
\* and whatever change of the settings was made between its attempts.
C33_WrapperNeverReturnsUninvoked ==
    Done
    => /\ Invocations # {}
       /\ outcome.kind = "returned" => (events # << >> /\ LastEvent.ev = "ok")
       /\ (\A i \in Invocations : events[i].ev = "fail") => outcome.kind = "raised"

\* the request at which the last failed attempt of the decorated call ended
LastFailAt ==
    LET at == {events[i].error.at : i \in Fails}
    IN  CHOOSE a \in at : \A b \in at : b <= a

\* what the chunk queries that started after request n returned, in the order
\* of the chunks
ChunkRecordsAfter(n) ==
    LET RECURSIVE from(_)
        from(k) == IF k > Len(qret) THEN << >>
                   ELSE (IF qret[k].base >= n THEN qret[k].data ELSE << >>) \o from(k + 1)
    IN  from(1)

\* a daily fetch returned a table after at least one failed attempt
RetriedDailyFetch ==
    /\ Done
    /\ EndsWithJ(req.variable)
    /\ Fails # {}
    /\ outcome.kind = "returned"
    /\ ~outcome.none

\* C34: the table a retried daily fetch returns holds the records of the
\* chunks of the successful attempt, each once and in chunk order, and no
\* record served to a failed attempt.
C34_RetryStartsAfresh ==
    RetriedDailyFetch
    => /\ outcome.value = ChunkRecordsAfter(LastFailAt)
       /\ \A i, j \in 1..Len(outcome.value) : i < j => outcome.value[i] < outcome.value[j]
       /\ \A i \in 1..Len(outcome.value) : outcome.value[i] > LastFailAt

\* two chunks: the first attempt failed in the second chunk after the first
\* had given a record; the second attempt returned the records of its own
\* two chunks
C34_Witness ==
    /\ RetriedDailyFetch
    /\ Len(events) = 3
    /\ Len(httplog) = 4
    /\ httplog[1].resp.ndata > 0
    /\ httplog[2].resp.status = NetErr
    /\ outcome.value = <<3, 4>>

\* the metadata table is loaded and none of its rows is the site's
NoRowFor(site) ==
    /\ metadata.loaded
    /\ \A i \in 1..Len(metadata.rows) : metadata.rows[i].code_station # site

\* C35: with metadata loaded, the fetch of a site without a row in the table
\* asks the service for the site's records over the caller's window, without
\* clamping, instead of failing before any request.
C35_UnlistedSiteFetched ==
    (Done /\ retry.n >= 1 /\ NoRowFor(req.site))
    => /\ httplog # << >>
       /\ httplog[1].url[3].code_entite = req.site
       /\ httplog[1].url[3].date_debut_obs_elab = req.start
       /\ outcome.error.kind # "no_row"

\* the canonical variables of the BOM adapter
BomCanonical == {W("discharge"), W("stage")}

\* C36: for each canonical variable the BOM adapter maps, the daily fetch
\* called with the mapped parameter name passes get_daily's parameter
\* validation and, with one station and a window in order, issues its
\* requests.
C36_MappedVariablesAccepted ==
    (/\ bom.op = "get_daily"
     /\ \E v \in BomCanonical : bom.in.parameter_type = VARIABLE_MAP("BOM")[v][1])
    => /\ bom.error.at \notin {"parameter", "combination"}
       /\ bom.log # << >> \/ bom.phase = "request"

\* the daily series of a statistic
SeriesOf(statistic) ==
    CASE statistic = "mean" -> <<"DMQaQc.Merged.Daily", "Mean", ".", "24HR">>
      [] statistic = "maximum" -> <<"DMQaQc.Merged.Daily", "Max", ".", "24HR">>
      [] statistic = "minimum" -> <<"DMQaQc.Merged.Daily", "Min", ".", "24HR">>

\* C37: the daily series the BOM fetch asks for is the one of the statistic
\* get_data was called with: DailyMean for mean, DailyMax for maximum,
\* DailyMin for minimum.
C37_StatisticSelectsSeries ==
    (bom.op = "get_daily" /\ bom.request \in {"getStationList", "getTimeseriesList",
                                                "getTimeseriesValues"})
    => bom.ts_name = SeriesOf(bom.in.statistic)

\* the arguments rivapi.get_data passes on under their own names
Forwarded ==
    {"start", "end", "write", "output_dir", "overwrite", "append", "return_data"}

\* C38: rivapi.get_data calls client.get_data with each of start, end,
\* write, output_dir, overwrite, append and return_data bound to the client
\* parameter of the same name, statistic left at its default, and returns to
\* its caller what the client returned: the mapping when return_data is set.
C38_WrapperForwards ==
    /\ wr.phase # "idle"
       => /\ \A p \in Forwarded : wr.bound[p] = [from |-> p, v |-> wr.args[p]]
          /\ wr.bound["statistic"] = [from |-> "default", v |-> "None"]
    /\ wr.phase = "returned"
       => /\ wr.ret = wr.client
          /\ wr.args["return_data"] = "True" => wr.ret = "map"

====
